---- MODULE Spec2Model ----
(***************************************************************************)
(* Verification model of the dependency viewer's ingestion engine:         *)
(*   - the bounded-concurrency harvester of src/src/salesforce.ts          *)
(*     (fetchAllMetadata, fetchAllDependencies) as called by the sync      *)
(*     command of src/unnamed/part_003;                                    *)
(*   - the SQLite graph store of src/src/db.ts and the repair command of   *)
(*     src/unnamed/part_002.                                               *)
(* Strings that the code inspects character by character (type names) are  *)
(* sequences of one-character strings.                                     *)
(***************************************************************************)
EXTENDS Integers, Sequences, FiniteSets, Bags, TLC

(***************************************************************************)
(* Bounds of the model.                                                    *)
(***************************************************************************)
\* number of ordinary type names the remote org can report besides the
\* blocked, noise-suffixed and look-alike names
NumPlain == 8
\* number of per-type remote calls (at either end of the list) that may fail
MaxFlaky == 2
\* longest batch handed to one store write, longest by-id remote answer
MaxBatch == 2
\* most rows the metadata_dependencies table is let grow to
MaxEdges == 2
\* rows of the table that searchComponents is run on
MaxRows == 52
\* most dangling ids in the store a repair run starts on: three chunks
MaxDangling == 41
\* most covered, and most uncovered, lines of a coverage aggregate row
MaxLines == 8
\* longest target org name
MaxOrgLen == 2

(***************************************************************************)
(* Program constants.                                                      *)
(***************************************************************************)
CONCURRENCY_LIMIT_METADATA == 10
CONCURRENCY_LIMIT_DEPENDENCIES == 5
BATCH_SIZE == 20
SEARCH_LIMIT == 50

VARIABLES
    \* ---- harvester (one batch call and the sync command awaiting it) ----
    pc,              \* position of the batch call's main async function
    harvest,         \* which batch call runs
    discovery,       \* how the describeMetadata call ended
    types,           \* the type list describeMetadata returned
    validTypes,      \* the filtered type list
    flaky,           \* indices of validTypes whose remote call may fail
    idx,             \* number of loop iterations done (types started)
    task,            \* per type: "unstarted", "inflight", "done", "rejected"
    fetchCount,      \* per type: remote fetches started for it
    activePromises,  \* the Set<Promise> of the code, as type indices
    results,         \* the results array, as a bag of per-type arrays
    completed,       \* the progress counter
    failedTypes,     \* indices whose fetch failed (caught)
    allRecords,      \* the value returned by the batch call
    exitCode,        \* process exit status set by the sync command's catch
    \* ---- graph store ----
    components,      \* rows of metadata_components, in storage order
    dependencies,    \* rows of metadata_dependencies, in rowid order
    lastOp,          \* the store operation that ran last: its name, how
                     \* it ended and what it did (history variable, see Op)
    firstWritten,    \* per id: name and type of the first record written
                     \* for it since the last clear (history variable)
    foreignKeys,     \* whether the SQLite build enforces the FOREIGN KEY
                     \* clauses of metadata_dependencies (the code sets no
                     \* pragma: the library's compile-time default decides)
    \* ---- sync command ----
    syncPc,          \* position of the sync command's action
    syncRun,         \* which run of the command this is (0: none yet)
    remote,          \* what the org answers: its components, stats and
                     \* dependency rows
    syncDeps,        \* the `dependencies` array of the running sync
    firstRun,        \* node ids and edge pairs the first run left (history)
    \* ---- component search ----
    searchTable,     \* rows of metadata_components, ids and names spelled
                     \* out as sequences of characters
    searchTerm,      \* the query of the last searchComponents call, Null
                     \* before the first
    searchResult,    \* the rows it returned
    \* ---- web server ----
    serverUp,        \* the server process is running
    serveOrg,        \* the targetOrg startServer was called with, or Null
    request,         \* the last GET /api/dependencies/:id request and what
                     \* the org answered to its remote call, Null before
                     \* the first
    response,        \* the response sent to it
    liveFailed,      \* a remote call of an earlier request failed (history)
    \* ---- apex stats ----
    apexIn,          \* what the org answers to the three aggregate queries
    apexOut,         \* what fetchApexStats returned, Null before it ran
    \* ---- database path ----
    cliOrg,          \* the -o argument of the commands
    cliDb,           \* DATABASE_PATH as set by -d or the environment
    cliPaths,        \* per command that ran: the database file it used
    \* ---- repair command, step by step ----
    repairPc,        \* position of the repair command's action
    repairMissing,   \* its missingIds set, in insertion order
    repairChunks,    \* its chunks array
    repairCalls,     \* per fetchDependenciesByIds call it issued, in order:
                     \* "inflight", "returned" or "threw"
    repairFound,     \* its foundComponentsMap
    \* ---- visualization client (AppContent of client/src/App.tsx) ----
    rawData,         \* the dependency records on display
    visibleTypes,    \* the types whose legend box is checked
    typeFilters,     \* per type with a filter: its non-empty filter text
    globalFilter,    \* the text of the global filter box
    showOrphansOnly, \* the "orphans only" toggle
    showHighlyConnected,  \* the "highly connected" toggle
    connectionThreshold,  \* its minimum number of connections
    flowNodes,       \* the nodes state handed to ReactFlow: the rendered nodes
    flowEdges        \* the edges state handed to ReactFlow: the rendered edges

hvars == <<pc, harvest, discovery, types, validTypes, flaky, idx, task, fetchCount,
           activePromises, results, completed, failedTypes,
           allRecords, exitCode>>

svars == <<components, dependencies, lastOp, firstWritten, foreignKeys>>

yvars == <<syncPc, syncRun, remote, syncDeps, firstRun>>

qvars == <<searchTable, searchTerm, searchResult>>

wvars == <<serverUp, serveOrg, request, response, liveFailed>>

avars == <<apexIn, apexOut>>

pvars == <<cliOrg, cliDb, cliPaths>>

rvars == <<repairPc, repairMissing, repairChunks, repairCalls, repairFound>>

cvars == <<rawData, visibleTypes, typeFilters, globalFilter, showOrphansOnly,
           showHighlyConnected, connectionThreshold, flowNodes, flowEdges>>

vars == <<hvars, svars, yvars, qvars, wvars, avars, pvars, rvars, cvars>>

(***************************************************************************)
(* Type names.                                                             *)
(***************************************************************************)
Letters == <<"a","b","c","d","e","f","g","h","i","j","k","l","m",
             "n","o","p","q","r","s","t","u","v","w","x","y","z">>

PlainType(k) == <<"A","p","e","x">> \o [j \in 1..(k % 3) |-> "x"] \o <<Letters[k]>>

BlockedNames ==
    { <<"U","s","e","r">>,
      <<"G","r","o","u","p">>,
      <<"O","r","g","a","n","i","z","a","t","i","o","n">>,
      <<"D","a","t","a","T","y","p","e">>,
      <<"E","n","t","i","t","y","D","e","f","i","n","i","t","i","o","n">> }

NoiseSuffixes ==
    { <<"H","i","s","t","o","r","y">>,
      <<"S","h","a","r","e">>,
      <<"F","e","e","d">> }

\* String.prototype.includes, the mutant of EndsWith
ContainsMutant(s, suffix) ==
    \E i \in 1..(Len(s) - Len(suffix) + 1) :
        SubSeq(s, i, i + Len(suffix) - 1) = suffix

\* String.prototype.endsWith
EndsWith(s, suffix) ==
    /\ Len(suffix) <= Len(s)
    /\ SubSeq(s, Len(s) - Len(suffix) + 1, Len(s)) = suffix

\* the filter callback of fetchAllMetadata / fetchAllDependencies
IsValidType(typeObj) ==
    LET typeName == typeObj.xmlName IN
    /\ typeName \notin BlockedNames
    /\ ~ \E sfx \in NoiseSuffixes : EndsWith(typeName, sfx)

\* Array.prototype.filter
RECURSIVE Filter(_)
Filter(list) ==
    IF list = <<>> THEN <<>>
    ELSE LET rest == Filter(Tail(list)) IN
         IF IsValidType(Head(list)) THEN <<Head(list)>> \o rest ELSE rest

(***************************************************************************)
(* The remote org.                                                         *)
(***************************************************************************)
\* names the org reports besides the plain ones: blocked, noise-suffixed,
\* and names that only look like them
SpecialNames ==
    << <<"U","s","e","r">>,
       <<"S","h","a","r","e","d">>,
       <<"A","c","c","o","u","n","t","H","i","s","t","o","r","y">>,
       <<"F","e","e","d","I","t","e","m">>,
       <<"G","r","o","u","p">>,
       <<"C","a","s","e","S","h","a","r","e">>,
       <<"U","s","e","r","s">>,
       <<"O","r","g","a","n","i","z","a","t","i","o","n">>,
       <<"U","s","e","r","F","e","e","d">>,
       <<"D","a","t","a","T","y","p","e">>,
       <<"H","i","s","t","o","r","y">>,
       <<"E","n","t","i","t","y","D","e","f","i","n","i","t","i","o","n">> >>

FullTypeList ==
    [k \in 1..(Len(SpecialNames) + NumPlain) |->
        [xmlName |-> IF k <= Len(SpecialNames) THEN SpecialNames[k]
                     ELSE PlainType(k - Len(SpecialNames))]]

\* the metadataObjects lists the org may answer with
RemoteTypeLists ==
    { SubSeq(FullTypeList, 1, n) :
        n \in {0, 1, 5, Len(SpecialNames), Len(SpecialNames) + 4, Len(FullTypeList)} }

\* what the org holds for a type: the `result` of `sf org list metadata`,
\* an array (possibly empty) or a single object
RemoteInventory(typeName) ==
    LET n == Len(typeName) % 3 IN
    IF n = 0 THEN [tag |-> "array", items |-> <<>>]
    ELSE IF n = 1 THEN [tag |-> "object",
                        items |-> <<[type |-> typeName, n |-> 1]>>]
    ELSE [tag |-> "array",
          items |-> <<[type |-> typeName, n |-> 1], [type |-> typeName, n |-> 2]>>]

\* what the org holds as MetadataComponentDependency rows of a type
RemoteDependencies(typeName) ==
    LET n == Len(typeName) % 2 IN
    IF n = 0 THEN [tag |-> "records", items |-> <<>>]
    ELSE [tag |-> "records",
          items |-> <<[type |-> typeName, n |-> 1], [type |-> typeName, n |-> 2]>>]

\* outcomes of one `sf` command: the command fails (exec rejects), prints
\* something that is no JSON, or prints a JSON document
DescribeResponses ==
    { [kind |-> "cmdError", status |-> 1, list |-> <<>>, hasList |-> FALSE],
      [kind |-> "badJson", status |-> 0, list |-> <<>>, hasList |-> FALSE],
      [kind |-> "json", status |-> 1, list |-> <<>>, hasList |-> FALSE],
      [kind |-> "json", status |-> 0, list |-> <<>>, hasList |-> FALSE] }
    \cup { [kind |-> "json", status |-> 0, list |-> l, hasList |-> TRUE] :
             l \in RemoteTypeLists }

FetchResponses(h, typeName, mayFail) ==
    LET payload == IF h = "fetchAllMetadata" THEN RemoteInventory(typeName)
                   ELSE RemoteDependencies(typeName)
        none == [tag |-> "undefined", items |-> <<>>]
    IN  { [kind |-> "json", status |-> 0, result |-> payload] }
        \cup (IF mayFail
              THEN { [kind |-> "cmdError", status |-> 1, result |-> none],
                     [kind |-> "badJson", status |-> 0, result |-> none],
                     [kind |-> "json", status |-> 1, result |-> none] }
              ELSE {})

(***************************************************************************)
(* describeMetadata, listMetadata, fetchDependencies.                      *)
(* Each returns [threw, value]: threw is a rejected promise.               *)
(***************************************************************************)
describeMetadata(resp) ==
    IF resp.kind = "cmdError" THEN [threw |-> TRUE, value |-> <<>>]
    ELSE IF resp.kind = "badJson" THEN [threw |-> TRUE, value |-> <<>>]
    ELSE IF resp.status = 0 /\ resp.hasList THEN [threw |-> FALSE, value |-> resp.list]
    ELSE [threw |-> FALSE, value |-> <<>>]

\* listMetadata without its try/catch
listMetadataUncaught(resp) ==
    IF resp.kind # "json" THEN [threw |-> TRUE, value |-> <<>>]
    ELSE IF resp.status = 0
         THEN [threw |-> FALSE,
               value |-> IF resp.result.tag = "array" THEN resp.result.items
                         ELSE <<Head(resp.result.items)>>]
    ELSE [threw |-> FALSE, value |-> <<>>]

listMetadata(resp) ==
    IF resp.kind # "json" THEN [threw |-> FALSE, value |-> <<>>]
    ELSE IF resp.status = 0
         THEN [threw |-> FALSE,
               value |-> IF resp.result.tag = "array" THEN resp.result.items
                         ELSE <<Head(resp.result.items)>>]
    ELSE [threw |-> FALSE, value |-> <<>>]

fetchDependencies(resp) ==
    IF resp.kind # "json" THEN [threw |-> FALSE, value |-> <<>>]
    ELSE IF resp.status = 0 /\ resp.result.tag = "records"
         THEN [threw |-> FALSE, value |-> resp.result.items]
    ELSE [threw |-> FALSE, value |-> <<>>]

FetchOne(h, resp) ==
    IF h = "fetchAllMetadata" THEN listMetadata(resp) ELSE fetchDependencies(resp)

\* the claim's notion of a failed per-type fetch
IsFailure(resp) == resp.kind # "json" \/ resp.status # 0

CONCURRENCY_LIMIT(h) ==
    IF h = "fetchAllMetadata" THEN CONCURRENCY_LIMIT_METADATA
    ELSE CONCURRENCY_LIMIT_DEPENDENCIES

(***************************************************************************)
(* The batch call.  JavaScript runs one callback at a time: the main       *)
(* function runs from one await to the next without interruption (pc =     *)
(* "loop"), and a remote call's completion is one macrotask in which the   *)
(* task body, the promise reactions registered on p (first the delete of   *)
(* line 88, then Promise.race's / Promise.all's) and the resumption of the *)
(* main function follow each other before any other completion is handled. *)
(***************************************************************************)
HarvestInit ==
    /\ pc = "idle"
    /\ harvest = "none"
    /\ discovery = "pending"
    /\ types = <<>>
    /\ validTypes = <<>>
    /\ flaky = {}
    /\ idx = 0
    /\ task = <<>>
    /\ fetchCount = <<>>
    /\ activePromises = {}
    /\ results = EmptyBag
    /\ completed = 0
    /\ failedTypes = {}
    /\ allRecords = EmptyBag
    /\ exitCode = 0

\* the sync command calls fetchAllMetadata / fetchAllDependencies, which
\* starts describeMetadata's command
Call(h) ==
    /\ pc = "idle"
    /\ pc' = "describe"
    /\ harvest' = h
    /\ UNCHANGED <<discovery, types, validTypes, flaky, idx, task, fetchCount,
                   activePromises, results, completed,
                   failedTypes, allRecords, exitCode>>
    /\ UNCHANGED <<svars, yvars, qvars, wvars, avars, pvars, rvars, cvars>>

DiscoveryOutcome(resp) ==
    IF resp.kind = "cmdError" THEN "cmdError"
    ELSE IF resp.kind = "badJson" THEN "badJson"
    ELSE IF resp.status # 0 THEN "badStatus"
    ELSE IF ~resp.hasList THEN "noList"
    ELSE "obtained"

\* the describe command ends; the filter runs
DescribeReturn(resp, fromEnd) ==
    /\ pc = "describe"
    /\ discovery' = DiscoveryOutcome(resp)
    /\ LET r == describeMetadata(resp)
           vt == Filter(r.value)
           n == Len(vt)
       IN  IF r.threw
           THEN /\ pc' = "threw"
                /\ UNCHANGED <<types, validTypes, flaky, task, fetchCount>>
           ELSE /\ pc' = "loop"
                /\ types' = r.value
                /\ validTypes' = vt
                /\ flaky' = IF fromEnd THEN {i \in 1..n : i > n - MaxFlaky}
                            ELSE {i \in 1..n : i <= MaxFlaky}
                /\ task' = [i \in 1..n |-> "unstarted"]
                /\ fetchCount' = [i \in 1..n |-> 0]
    /\ UNCHANGED <<harvest, idx, activePromises, results, completed,
                   failedTypes, allRecords, exitCode>>
    /\ UNCHANGED <<svars, yvars, qvars, wvars, avars, pvars, rvars, cvars>>

\* `if (activePromises.size >= CONCURRENCY_LIMIT)` with the mutant `>`
MustWaitMutant(active, limit) == Cardinality(active) > limit

MustWait(active, limit) == Cardinality(active) >= limit

\* one iteration of the for loop: start the next type's task
StartFetch ==
    /\ pc = "loop"
    /\ idx < Len(validTypes)
    /\ LET i == idx + 1
           active == activePromises \cup {i}
       IN  /\ idx' = i
           /\ task' = [task EXCEPT ![i] = "inflight"]
           /\ fetchCount' = [fetchCount EXCEPT ![i] = @ + 1]
           /\ activePromises' = active
           /\ pc' = IF MustWait(active, CONCURRENCY_LIMIT(harvest))
                    THEN "race" ELSE "loop"
    /\ UNCHANGED <<harvest, discovery, types, validTypes, flaky, results,
                   completed, failedTypes, allRecords, exitCode>>
    /\ UNCHANGED <<svars, yvars, qvars, wvars, avars, pvars, rvars, cvars>>

\* the loop is over: `await Promise.all(activePromises)`
LoopEnd ==
    /\ pc = "loop"
    /\ idx = Len(validTypes)
    /\ pc' = "all"
    /\ UNCHANGED <<harvest, discovery, types, validTypes, flaky, idx, task, fetchCount,
                   activePromises, results, completed, failedTypes,
                   allRecords, exitCode>>
    /\ UNCHANGED <<svars, yvars, qvars, wvars, avars, pvars, rvars, cvars>>

\* `if (records && records.length > 0) results.push(records)`
PushRecords(res, records) ==
    IF Len(records) > 0 THEN res (+) SetToBag({records}) ELSE res

\* `completed++` with the mutant that counts only non-empty fetches
CountCompletedMutant(n, records) == IF Len(records) > 0 THEN n + 1 ELSE n

CountCompleted(n, records) == n + 1

\* `p.then(() => activePromises.delete(p))` with the mutant that forgets it
SettleMutant(active, i) == active

Settle(active, i) == active \ {i}

\* the await of Promise.race ends when a raced promise settles, with the
\* mutant in which the main function is not resumed
ResumeMutant(p) == p

\* the main function resumed only by the completion that empties the set:
\* the next types start after the whole wave has drained (a mutant of
\* Resume)
ResumeDrainedMutant(p) ==
    IF p = "race" /\ Cardinality(activePromises) <= 1 THEN "loop" ELSE p

Resume(p) == IF p = "race" THEN "loop" ELSE p

\* the remote call of type i ends: the rest of the task body runs, p
\* settles, its reactions run and the main function resumes if a race was
\* awaited
Complete(i, resp) ==
    /\ pc \in {"race", "all"}
    /\ i \in DOMAIN task
    /\ task[i] = "inflight"
    /\ LET r == FetchOne(harvest, resp) IN
       IF r.threw
       THEN \* p rejects: no delete (then has no onRejected), race / all reject
            /\ task' = [task EXCEPT ![i] = "rejected"]
            /\ pc' = "threw"
            /\ UNCHANGED <<results, completed, activePromises>>
       ELSE /\ task' = [task EXCEPT ![i] = "done"]
            /\ results' = PushRecords(results, r.value)
            /\ completed' = CountCompleted(completed, r.value)
            /\ activePromises' = Settle(activePromises, i)
            /\ pc' = Resume(pc)
    /\ failedTypes' = IF IsFailure(resp) THEN failedTypes \cup {i} ELSE failedTypes
    /\ UNCHANGED <<harvest, discovery, types, validTypes, flaky, idx, fetchCount,
                   allRecords, exitCode>>
    /\ UNCHANGED <<svars, yvars, qvars, wvars, avars, pvars, rvars, cvars>>

\* Array.prototype.flat over the results array
RECURSIVE SeqToBag(_)
SeqToBag(s) == IF s = <<>> THEN EmptyBag
               ELSE SetToBag({Head(s)}) (+) SeqToBag(Tail(s))

RECURSIVE Flat(_)
Flat(res) ==
    IF BagToSet(res) = {} THEN EmptyBag
    ELSE LET arr == CHOOSE a \in BagToSet(res) : TRUE
         IN  SeqToBag(arr) (+) Flat(res (-) SetToBag({arr}))

\* Promise.all(activePromises) is fulfilled when every promise that was in
\* the set at the call is fulfilled.  No promise is added after the loop and
\* every fulfilled one is deleted in the macrotask that fulfils it, so these
\* are the promises still in the set.  The mutant returns without the join.
JoinReadyMutant(active, t) == TRUE

JoinReady(active, t) == \A i \in active : t[i] = "done"

\* Promise.all resolves; the batch call returns results.flat()
Join ==
    /\ pc = "all"
    /\ JoinReady(activePromises, task)
    /\ pc' = "done"
    /\ allRecords' = Flat(results)
    /\ UNCHANGED <<harvest, discovery, types, validTypes, flaky, idx, task, fetchCount,
                   activePromises, results, completed,
                   failedTypes, exitCode>>
    /\ UNCHANGED <<svars, yvars, qvars, wvars, avars, pvars, rvars, cvars>>

\* the catch block of the sync command: console.error, process.exit(1)
SyncCatch ==
    /\ pc = "threw"
    /\ pc' = "exited"
    /\ exitCode' = 1
    /\ UNCHANGED <<harvest, discovery, types, validTypes, flaky, idx, task, fetchCount,
                   activePromises, results, completed,
                   failedTypes, allRecords>>
    /\ UNCHANGED <<svars, yvars, qvars, wvars, avars, pvars, rvars, cvars>>

CompleteSome(i) ==
    /\ i \in DOMAIN task
    /\ \E resp \in FetchResponses(harvest, validTypes[i].xmlName, i \in flaky) :
          Complete(i, resp)

HarvestNext ==
    \/ \E h \in {"fetchAllMetadata", "fetchAllDependencies"} : Call(h)
    \/ \E resp \in DescribeResponses, fromEnd \in BOOLEAN : DescribeReturn(resp, fromEnd)
    \/ StartFetch
    \/ LoopEnd
    \/ \E i \in DOMAIN task : CompleteSome(i)
    \/ Join
    \/ SyncCatch


(***************************************************************************)
(* The graph store (src/src/db.ts).  The model joins the two versions of   *)
(* the file: metadata_components with its size and coverage columns and    *)
(* the metadata_dependencies table with the insert that fills it.          *)
(* A nullable column or field is a sequence of length at most one.         *)
(***************************************************************************)
Null == <<>>
Some(v) == <<v>>

\* COALESCE(x, y)
Coalesce(x, y) == IF x # Null THEN x ELSE y

\* JavaScript truthiness of an id string: `if (comp.id)`, with the mutant
\* that drops the test
HasIdMutant(id) == TRUE

HasId(id) == id # ""

\* the mutant of InsertOrIgnore that resolves a conflict by deleting the
\* row that holds the id
InsertOrDeleteMutant(rows, comp) ==
    IF \E k \in DOMAIN rows : rows[k].id = comp.id
    THEN SelectSeq(rows, LAMBDA r : r.id # comp.id)
    ELSE Append(rows, [id |-> comp.id, name |-> comp.name, type |-> comp.type,
                       size |-> Null, coverage |-> Null])

\* INSERT OR REPLACE, the mutant of InsertOrIgnore
InsertOrReplaceMutant(rows, comp) ==
    LET row == [id |-> comp.id, name |-> comp.name, type |-> comp.type,
                size |-> Null, coverage |-> Null]
    IN  IF \E k \in DOMAIN rows : rows[k].id = comp.id
        THEN [k \in DOMAIN rows |-> IF rows[k].id = comp.id THEN row ELSE rows[k]]
        ELSE Append(rows, row)

\* INSERT OR IGNORE INTO metadata_components (id, name, type): id is the
\* PRIMARY KEY, a row whose id is taken is ignored
InsertOrIgnore(rows, comp) ==
    IF \E k \in DOMAIN rows : rows[k].id = comp.id
    THEN rows
    ELSE Append(rows, [id |-> comp.id, name |-> comp.name, type |-> comp.type,
                       size |-> Null, coverage |-> Null])

\* the insertMany transaction of insertComponents
RECURSIVE insertComponents(_, _)
insertComponents(rows, comps) ==
    IF comps = <<>> THEN rows
    ELSE IF Len(comps) = 1
    THEN LET comp == Head(comps)
         IN  IF HasId(comp.id) THEN InsertOrIgnore(rows, comp) ELSE rows
    ELSE \* the loop over the first half of the batch, then over the second
         LET half == Len(comps) \div 2
         IN  CHOOSE r \in {insertComponents(v, SubSeq(comps, half + 1, Len(comps))) :
                               v \in {insertComponents(rows, SubSeq(comps, 1, half))}} : TRUE

\* `SET size = @size, coverage = @coverage`, the mutant of UpdateRow
UpdateRowOverwriteMutant(row, item) ==
    [row EXCEPT !.size = item.size, !.coverage = item.coverage]

\* UPDATE metadata_components SET size = COALESCE(@size, size),
\* coverage = COALESCE(@coverage, coverage), on one row that matches
UpdateRow(row, item) ==
    [row EXCEPT !.size = Coalesce(item.size, row.size),
                !.coverage = Coalesce(item.coverage, row.coverage)]

\* INSERT ... ON CONFLICT(id) DO UPDATE in place of the UPDATE: the mutant
\* of updateComponentStats that creates the row it does not find
RECURSIVE upsertComponentStatsMutant(_, _)
upsertComponentStatsMutant(rows, stats) ==
    IF stats = <<>> THEN rows
    ELSE LET item == Head(stats)
             next == IF ~HasId(item.id) THEN rows
                     ELSE IF \E k \in DOMAIN rows : rows[k].id = item.id
                     THEN [k \in DOMAIN rows |->
                             IF rows[k].id = item.id THEN UpdateRow(rows[k], item)
                             ELSE rows[k]]
                     ELSE Append(rows, [id |-> item.id, name |-> "", type |-> "",
                                        size |-> item.size, coverage |-> item.coverage])
         IN  upsertComponentStatsMutant(next, Tail(stats))

\* the updateMany transaction of updateComponentStats; `item.size ?? null`
\* leaves a number (0 too) as it is and turns undefined into NULL
RECURSIVE updateComponentStats(_, _)
updateComponentStats(rows, stats) ==
    IF stats = <<>> THEN rows
    ELSE LET item == Head(stats)
             next == IF HasId(item.id)
                     THEN [k \in DOMAIN rows |->
                             IF rows[k].id = item.id THEN UpdateRow(rows[k], item)
                             ELSE rows[k]]
                     ELSE rows
         IN  updateComponentStats(next, Tail(stats))

\* the insertMany transaction of insertDependencyEdges: a plain INSERT, the
\* row's key is its AUTOINCREMENT id
RECURSIVE insertDependencyEdges(_, _)
insertDependencyEdges(rows, edges) ==
    IF edges = <<>> THEN rows
    ELSE LET item == Head(edges)
             next == IF HasId(item.sourceId) /\ HasId(item.targetId)
                     THEN Append(rows, [sourceId |-> item.sourceId,
                                        targetId |-> item.targetId])
                     ELSE rows
         IN  insertDependencyEdges(next, Tail(edges))

RECURSIVE SeqsUpTo(_, _)
SeqsUpTo(S, n) ==
    IF n = 0 THEN {<<>>}
    ELSE LET shorter == SeqsUpTo(S, n - 1)
         IN  shorter \cup {Append(q, x) : q \in shorter, x \in S}

\* inputs of the store operations
ComponentRecords ==
    { [id |-> "a", name |-> "n1", type |-> "t1"],
      [id |-> "a", name |-> "n2", type |-> "t2"],
      [id |-> "b", name |-> "n1", type |-> "t1"],
      [id |-> "",  name |-> "n2", type |-> "t2"] }

StatRecords ==
    { [id |-> "a", size |-> Some(10), coverage |-> Null],
      [id |-> "a", size |-> Null, coverage |-> Some(80)],
      [id |-> "a", size |-> Some(20), coverage |-> Some(0)],
      [id |-> "",  size |-> Some(20), coverage |-> Some(80)] }

EdgeRecords ==
    { [sourceId |-> "a", targetId |-> "b"],
      [sourceId |-> "b", targetId |-> "b"],
      [sourceId |-> "",  targetId |-> "a"] }

\* rows the org may answer a by-id dependency query with
RemoteDependencyRows ==
    { [MetadataComponentId |-> "a", MetadataComponentName |-> "n1",
       MetadataComponentType |-> "t1", RefMetadataComponentId |-> "b",
       RefMetadataComponentName |-> "n1", RefMetadataComponentType |-> "t1"],
      [MetadataComponentId |-> "b", MetadataComponentName |-> "n2",
       MetadataComponentType |-> "t2", RefMetadataComponentId |-> "b",
       RefMetadataComponentName |-> "n2", RefMetadataComponentType |-> "t2"] }

\* the mutant of MapSet that keeps the value an id was first set to
MapSetKeepMutant(m, rec) ==
    IF \E k \in DOMAIN m : m[k].id = rec.id THEN m ELSE Append(m, rec)

\* Map.prototype.set on a map kept as the sequence of its values in
\* insertion order, keyed by id
MapSet(m, rec) ==
    IF \E k \in DOMAIN m : m[k].id = rec.id
    THEN [k \in DOMAIN m |-> IF m[k].id = rec.id THEN rec ELSE m[k]]
    ELSE Append(m, rec)

\* Set.prototype.add on a set kept as the sequence of its elements
SetAdd(q, x) == IF \E k \in DOMAIN q : q[k] = x THEN q ELSE Append(q, x)

\* the ids of a column of the dependency table, row by row
ColumnOf(deps, col) ==
    [k \in DOMAIN deps |->
        IF col = "sourceId" THEN deps[k].sourceId ELSE deps[k].targetId]

\* the entries of ids at the positions in keep, in their order
Pick(ids, keep) ==
    LET marked == [k \in DOMAIN ids |-> <<ids[k], k \in keep>>]
        chosen == SelectSeq(marked, LAMBDA p : p[2])
    IN  [k \in DOMAIN chosen |-> chosen[k][1]]

\* the mutant of MissingOf without its WHERE clause: every distinct id of
\* the column
MissingOfMutant(deps, rows, col) ==
    CHOOSE r \in {Pick(ids, {k \in DOMAIN ids : \A j \in 1..(k - 1) : ids[j] # ids[k]}) :
                     ids \in {ColumnOf(deps, col)}} : TRUE

\* SELECT DISTINCT d.<col> FROM metadata_dependencies d LEFT JOIN
\* metadata_components c ON d.<col> = c.id WHERE c.id IS NULL
MissingOf(deps, rows, col) ==
    CHOOSE r \in {Pick(ids, {k \in DOMAIN ids :
                                /\ \A j \in 1..(k - 1) : ids[j] # ids[k]
                                /\ ~\E n \in DOMAIN rows : rows[n].id = ids[k]}) :
                     ids \in {ColumnOf(deps, col)}} : TRUE

\* rows.forEach(r => missingIds.add(r.id)): SetAdd of each id in turn, which
\* appends the ids the set does not hold yet, each once
AddAll(q, ids) ==
    q \o Pick(ids, {k \in DOMAIN ids :
                       /\ \A j \in 1..(k - 1) : ids[j] # ids[k]
                       /\ ~\E n \in DOMAIN q : q[n] = ids[k]})

\* the mutant of MissingIds that leaves out the missing targets
MissingSourcesMutant(deps, rows) == AddAll(<<>>, MissingOf(deps, rows, "sourceId"))

\* the missingIds set of the repair command
MissingIds(deps, rows) ==
    AddAll(AddAll(<<>>, MissingOf(deps, rows, "sourceId")),
           MissingOf(deps, rows, "targetId"))

\* the chunks array of the repair command
RECURSIVE Chunks(_)
Chunks(ids) ==
    IF ids = <<>> THEN <<>>
    ELSE IF Len(ids) <= BATCH_SIZE THEN <<ids>>
    ELSE <<SubSeq(ids, 1, BATCH_SIZE)>> \o Chunks(SubSeq(ids, BATCH_SIZE + 1, Len(ids)))

\* the mutant of FoundComponents that reads only the RefMetadataComponent
\* endpoint of a record
RECURSIVE FoundTargetsMutant(_, _)
FoundTargetsMutant(m, records) ==
    IF records = <<>> THEN m
    ELSE LET d == Head(records)
             m1 == IF d.RefMetadataComponentId # ""
                   THEN MapSet(m, [id |-> d.RefMetadataComponentId,
                                   name |-> d.RefMetadataComponentName,
                                   type |-> d.RefMetadataComponentType])
                   ELSE m
         IN  FoundTargetsMutant(m1, Tail(records))

\* the mutant of FoundComponents that reads only the MetadataComponent
\* endpoint of a record
RECURSIVE FoundSourcesMutant(_, _)
FoundSourcesMutant(m, records) ==
    IF records = <<>> THEN m
    ELSE LET d == Head(records)
             m1 == IF d.MetadataComponentId # ""
                   THEN MapSet(m, [id |-> d.MetadataComponentId,
                                   name |-> d.MetadataComponentName,
                                   type |-> d.MetadataComponentType])
                   ELSE m
         IN  FoundSourcesMutant(m1, Tail(records))

\* the records.forEach callback of the repair command
RECURSIVE FoundComponents(_, _)
FoundComponents(m, records) ==
    IF records = <<>> THEN m
    ELSE IF Len(records) > 1
    THEN \* the callback on the first half of the records, then on the second
         LET half == Len(records) \div 2
         IN  CHOOSE r \in {FoundComponents(v, SubSeq(records, half + 1, Len(records))) :
                               v \in {FoundComponents(m, SubSeq(records, 1, half))}} : TRUE
    ELSE LET d == Head(records)
             m1 == IF HasId(d.MetadataComponentId)
                   THEN MapSet(m, [id |-> d.MetadataComponentId,
                                   name |-> d.MetadataComponentName,
                                   type |-> d.MetadataComponentType])
                   ELSE m
             m2 == IF HasId(d.RefMetadataComponentId)
                   THEN MapSet(m1, [id |-> d.RefMetadataComponentId,
                                    name |-> d.RefMetadataComponentName,
                                    type |-> d.RefMetadataComponentType])
                   ELSE m1
         IN  m2

\* an answer of fetchDependenciesByIds: the call throws or returns records
RepairResponses ==
    { [threw |-> TRUE, records |-> <<>>] }
    \cup { [threw |-> FALSE, records |-> q] : q \in SeqsUpTo(RemoteDependencyRows, MaxBatch) }

\* the mutant of RepairLoop that treats an empty answer as an error
RECURSIVE RepairLoopStrictMutant(_, _, _)
RepairLoopStrictMutant(m, n, resps) ==
    IF n > Len(resps) THEN [threw |-> FALSE, found |-> m, calls |-> n - 1]
    ELSE IF resps[n].threw \/ resps[n].records = <<>>
         THEN [threw |-> TRUE, found |-> m, calls |-> n]
    ELSE RepairLoopStrictMutant(FoundComponents(m, resps[n].records), n + 1, resps)

\* the chunk loop of the repair command over the answers resps[1..] the
\* org gives to the calls for chunks 1.., with the number of calls made
RECURSIVE RepairLoop(_, _, _)
RepairLoop(m, n, resps) ==
    IF n > Len(resps) THEN [threw |-> FALSE, found |-> m, calls |-> n - 1]
    ELSE IF resps[n].threw THEN [threw |-> TRUE, found |-> m, calls |-> n]
    ELSE CHOOSE r \in {RepairLoop(v, n + 1, resps) :
                           v \in {FoundComponents(m, resps[n].records)}} : TRUE

\* the first-writer history after one insertComponents call
RECURSIVE NoteFirst(_, _)
NoteFirst(fw, comps) ==
    IF comps = <<>> THEN fw
    ELSE IF Len(comps) = 1
    THEN LET c == Head(comps)
         IN  IF c.id = "" \/ c.id \in DOMAIN fw THEN fw
             ELSE fw @@ (c.id :> [name |-> c.name, type |-> c.type])
    ELSE LET half == Len(comps) \div 2
         IN  CHOOSE r \in {NoteFirst(v, SubSeq(comps, half + 1, Len(comps))) :
                               v \in {NoteFirst(fw, SubSeq(comps, 1, half))}} : TRUE

\* the history record of one store operation:
\*   ignored    ids of component records that were skipped for their empty
\*              id or ignored although their name differs from the row's
\*   applied    <<id, column>> pairs a stats record wrote
\*   missed     non-empty ids of stats records that matched no row
\*   threw, cause, rolledBack   whether the call threw, why, and whether
\*              rows written before the failure were rolled back
\*   missing, resolved   repair: the ids it found dangling and the ids the
\*              remote answers named
\*   calls, early   repair: the number of remote calls it made and the ids
\*              named by the answers it received before a call threw
\*   failed     repair: the first chunk the org fails to answer, 0 if none
\*   restoring, said   repair: the count of its "Restoring n components"
\*              line (0 when it is not printed) and its last console line
\*   named      repair, insertDependencies: per endpoint id of the records
\*              received, the name and type of the last mention of the id
\*              and the names of the mentions before it
\*   created    repair, insertDependencies: the ids of the rows the call
\*              added to metadata_components
Op(name) ==
    [op |-> name, ignored |-> {}, applied |-> {}, missed |-> {},
     threw |-> FALSE, cause |-> "none", rolledBack |-> FALSE,
     missing |-> {}, resolved |-> {}, calls |-> 0, early |-> {},
     failed |-> 0, restoring |-> 0, said |-> "none", named |-> <<>>,
     created |-> {}]

\* the records of a batch that match no row they created: those with an
\* empty id and those whose id was taken before them
RECURSIVE NotStored(_, _)
NotStored(fw, comps) ==
    IF comps = <<>> THEN {}
    ELSE LET c == Head(comps) IN
         IF c.id = "" \/ c.id \in DOMAIN fw
         THEN {c} \cup NotStored(fw, Tail(comps))
         ELSE NotStored(fw @@ (c.id :> [name |-> c.name, type |-> c.type]), Tail(comps))

\* getDb().transaction(fn)(batch) without its rollback: the rows written
\* before the failure stay (the mutant of Transaction)
TransactionMutant(before, written, threw) == written

\* getDb().transaction(fn)(batch): BEGIN, fn, COMMIT; when fn throws the
\* transaction is rolled back and the exception is thrown on
Transaction(before, written, threw) == IF threw THEN before ELSE written

\* least element of a set of positive numbers, 0 for the empty set
FirstOf(S) == IF S = {} THEN 0 ELSE CHOOSE n \in S : \A m \in S : n <= m

\* the FOREIGN KEY clauses of metadata_dependencies, checked by an
\* enforcing build when a row is inserted
ForeignKeyFails(fk, rows, item) ==
    /\ fk
    /\ \/ ~\E k \in DOMAIN rows : rows[k].id = item.sourceId
       \/ ~\E k \in DOMAIN rows : rows[k].id = item.targetId

StoreInit ==
    /\ components = <<>>
    /\ dependencies = <<>>
    /\ lastOp = Op("initDb")
    /\ firstWritten = <<>>
    /\ foreignKeys \in BOOLEAN

\* the store variables while no command has opened the database
StoreClosed ==
    /\ components = <<>>
    /\ dependencies = <<>>
    /\ lastOp = Op("none")
    /\ firstWritten = <<>>
    /\ foreignKeys = FALSE

\* insertComponents(comps); failAt > 0 is the row whose stmt.run fails with
\* a SQLite error
InsertComponents(comps, failAt) ==
    LET at == IF failAt \in DOMAIN comps /\ HasId(comps[failAt].id) THEN failAt ELSE 0
        threw == at # 0
        ran == IF threw THEN SubSeq(comps, 1, at - 1) ELSE comps
        written == insertComponents(components, ran)
    IN  /\ failAt <= Len(comps)
        /\ failAt # 0 => threw
        /\ components' = Transaction(components, written, threw)
        /\ firstWritten' = IF threw THEN firstWritten ELSE NoteFirst(firstWritten, comps)
        /\ lastOp' = [Op("insertComponents") EXCEPT
                        !.ignored =
                            IF threw THEN {}
                            ELSE LET fw == NoteFirst(firstWritten, comps)
                                 IN  {c.id : c \in {r \in NotStored(firstWritten, comps) :
                                                     r.id = "" \/ fw[r.id].name # r.name}},
                        !.threw = threw,
                        !.cause = IF threw THEN "write" ELSE "none",
                        !.rolledBack = threw /\ written # components]
        /\ UNCHANGED <<dependencies, foreignKeys>>

\* updateComponentStats(stats)
UpdateComponentStats(stats, failAt) ==
    LET at == IF failAt \in DOMAIN stats /\ HasId(stats[failAt].id) THEN failAt ELSE 0
        threw == at # 0
        ran == IF threw THEN SubSeq(stats, 1, at - 1) ELSE stats
        written == updateComponentStats(components, ran)
        hit(m) == \E k \in DOMAIN components : components[k].id = stats[m].id
    IN  /\ failAt <= Len(stats)
        /\ failAt # 0 => threw
        /\ components' = Transaction(components, written, threw)
        /\ lastOp' = [Op("updateComponentStats") EXCEPT
                        !.applied =
                            IF threw THEN {}
                            ELSE {<<stats[m].id, "size">> :
                                    m \in {n \in DOMAIN stats : hit(n) /\ stats[n].size # Null}}
                                 \cup
                                 {<<stats[m].id, "coverage">> :
                                    m \in {n \in DOMAIN stats : hit(n) /\ stats[n].coverage # Null}},
                        !.missed = IF threw THEN {}
                                   ELSE {stats[m].id : m \in {n \in DOMAIN stats :
                                            HasId(stats[n].id) /\ ~hit(n)}},
                        !.threw = threw,
                        !.cause = IF threw THEN "write" ELSE "none",
                        !.rolledBack = threw /\ written # components]
        /\ UNCHANGED <<dependencies, firstWritten, foreignKeys>>

\* insertDependencyEdges(edges): a row fails on a SQLite error (failAt) or
\* on a FOREIGN KEY clause
InsertDependencyEdges(edges, failAt) ==
    LET runs(m) == HasId(edges[m].sourceId) /\ HasId(edges[m].targetId)
        fkAt == FirstOf({m \in DOMAIN edges :
                           runs(m) /\ ForeignKeyFails(foreignKeys, components, edges[m])})
        envAt == IF failAt \in DOMAIN edges /\ runs(failAt) THEN failAt ELSE 0
        at == FirstOf({fkAt, envAt} \ {0})
        threw == at # 0
        ran == IF threw THEN SubSeq(edges, 1, at - 1) ELSE edges
        written == insertDependencyEdges(dependencies, ran)
    IN  /\ failAt <= Len(edges)
        /\ failAt # 0 => envAt # 0
        /\ Len(written) <= MaxEdges
        /\ dependencies' = Transaction(dependencies, written, threw)
        /\ lastOp' = [Op("insertDependencyEdges") EXCEPT
                        !.threw = threw,
                        !.cause = IF ~threw THEN "none"
                                  ELSE IF at = fkAt THEN "constraint" ELSE "write",
                        !.rolledBack = threw /\ written # dependencies]
        /\ UNCHANGED <<components, firstWritten, foreignKeys>>

\* DELETE FROM <table>, with the mutant that deletes nothing
DeleteFromMutant(table) == table

DeleteFrom(table) == <<>>

\* DELETE FROM metadata_dependencies; DELETE FROM metadata_components
ClearDependencies ==
    /\ dependencies' = DeleteFrom(dependencies)
    /\ components' = DeleteFrom(components)
    /\ firstWritten' = <<>>
    /\ lastOp' = Op("clearDependencies")
    /\ UNCHANGED foreignKeys

SeqToSet(q) == {q[k] : k \in DOMAIN q}

\* the non-empty endpoint ids the answers name
AnsweredIds(resps) ==
    UNION {UNION {{resps[n].records[k].MetadataComponentId,
                   resps[n].records[k].RefMetadataComponentId} :
                      k \in DOMAIN resps[n].records} : n \in DOMAIN resps} \ {""}

\* the records of the answers, in the order the forEach callbacks see them
RECURSIVE AnsweredRecords(_)
AnsweredRecords(resps) ==
    IF resps = <<>> THEN <<>>
    ELSE Head(resps).records \o AnsweredRecords(Tail(resps))

\* the endpoint mentions of a record list in reading order (the source of
\* a record before its target), and for every non-empty id the name and
\* type its last mention carries and the names of its earlier mentions
LastNamed(records) ==
    LET mentions == [k \in 1..(2 * Len(records)) |->
                        LET d == records[(k + 1) \div 2]
                        IN  IF k % 2 = 1
                            THEN [id |-> d.MetadataComponentId,
                                  name |-> d.MetadataComponentName,
                                  type |-> d.MetadataComponentType]
                            ELSE [id |-> d.RefMetadataComponentId,
                                  name |-> d.RefMetadataComponentName,
                                  type |-> d.RefMetadataComponentType]]
        last(id) == CHOOSE k \in DOMAIN mentions :
                       /\ mentions[k].id = id
                       /\ \A j \in DOMAIN mentions : mentions[j].id = id => j <= k
    IN  [id \in {mentions[k].id : k \in DOMAIN mentions} \ {""} |->
            [name |-> mentions[last(id)].name, type |-> mentions[last(id)].type,
             earlier |-> {mentions[j].name : j \in {i \in 1..(last(id) - 1) :
                                                      mentions[i].id = id}}]]

\* the mutant of ActuallyMissing without the filter: every component the
\* answers named
ActuallyMissingMutant(found, missingIds) == found

\* componentsToInsert.filter(c => missingIds.has(c.id))
ActuallyMissing(found, missingIds) ==
    SelectSeq(found, LAMBDA c : \E k \in DOMAIN missingIds : missingIds[k] = c.id)

\* the repair command, from its queries to its insert; a throw anywhere
\* ends in the catch (Repair failed, exit 1)
Repair(resps, failAt) ==
    \E missingIds \in {MissingIds(dependencies, components)},
       run \in {RepairLoop(<<>>, 1, resps)} :
    \E actuallyMissing \in {ActuallyMissing(run.found, missingIds)} :
    LET chunks == Chunks(missingIds)
        inserts == missingIds # <<>> /\ ~run.threw /\ actuallyMissing # <<>>
        at == IF inserts /\ failAt \in DOMAIN actuallyMissing THEN failAt ELSE 0
        ran == IF at # 0 THEN SubSeq(actuallyMissing, 1, at - 1) ELSE actuallyMissing
        written == insertComponents(components, ran)
        threw == missingIds # <<>> /\ (run.threw \/ at # 0)
    IN  /\ Len(resps) = Len(chunks)
        /\ failAt # 0 => at # 0
        /\ lastOp' = [Op("repair") EXCEPT
                        !.missing = SeqToSet(missingIds),
                        !.resolved = AnsweredIds(resps),
                        !.named = LastNamed(AnsweredRecords(resps)),
                        !.created = IF inserts /\ at = 0
                                    THEN {written[k].id : k \in DOMAIN written}
                                         \ {components[k].id : k \in DOMAIN components}
                                    ELSE {},
                        !.threw = threw,
                        !.cause = IF \E n \in DOMAIN resps : resps[n].threw THEN "remote"
                                  ELSE IF at # 0 THEN "write" ELSE "none",
                        !.rolledBack = at # 0 /\ written # components,
                        !.calls = IF missingIds = <<>> THEN 0 ELSE run.calls,
                        !.early = AnsweredIds(SubSeq(resps, 1,
                                      IF run.threw THEN run.calls - 1 ELSE run.calls)),
                        !.failed = FirstOf({n \in DOMAIN resps : resps[n].threw}),
                        !.restoring = IF inserts THEN Len(actuallyMissing) ELSE 0,
                        !.said = IF missingIds = <<>> THEN "consistent"
                                 ELSE IF threw THEN "failed"
                                 ELSE IF inserts THEN "complete"
                                 ELSE "unresolved"]
        /\ UNCHANGED <<dependencies, foreignKeys>>
        /\ IF inserts
           THEN /\ components' = Transaction(components, written, at # 0)
                /\ firstWritten' = IF at # 0 THEN firstWritten
                                   ELSE NoteFirst(firstWritten, actuallyMissing)
           ELSE UNCHANGED <<components, firstWritten>>

\* the batches the operations are called with
ComponentBatches == SeqsUpTo(ComponentRecords, MaxBatch)

StatBatches == SeqsUpTo(StatRecords, MaxBatch)

EdgeBatches == SeqsUpTo(EdgeRecords, MaxBatch)

RepairAnswers == SeqsUpTo(RepairResponses, 1)

StoreNext ==
    \/ /\ \E comps \in ComponentBatches : InsertComponents(comps, 0)
       /\ UNCHANGED <<hvars, yvars, qvars, wvars, avars, pvars, rvars, cvars>>
    \/ /\ \E stats \in StatBatches : UpdateComponentStats(stats, 0)
       /\ UNCHANGED <<hvars, yvars, qvars, wvars, avars, pvars, rvars, cvars>>
    \/ /\ \E edges \in EdgeBatches : InsertDependencyEdges(edges, 0)
       /\ UNCHANGED <<hvars, yvars, qvars, wvars, avars, pvars, rvars, cvars>>
    \/ /\ ClearDependencies
       /\ UNCHANGED <<hvars, yvars, qvars, wvars, avars, pvars, rvars, cvars>>
    \/ /\ \E resps \in RepairAnswers : Repair(resps, 0)
       /\ UNCHANGED <<hvars, yvars, qvars, wvars, avars, pvars, rvars, cvars>>

\* inputs of the store operations when a row's write may fail
FaultComponentRecords ==
    { [id |-> "a", name |-> "n1", type |-> "t1"],
      [id |-> "b", name |-> "n1", type |-> "t1"] }

FaultStatRecords ==
    { [id |-> "a", size |-> Some(10), coverage |-> Null],
      [id |-> "b", size |-> Null, coverage |-> Some(80)] }

FaultComponentBatches == SeqsUpTo(FaultComponentRecords, MaxBatch)

FaultStatBatches == SeqsUpTo(FaultStatRecords, MaxBatch)

\* the store operations, each with any row of its batch failing
StoreFaultNext ==
    \/ /\ \E comps \in FaultComponentBatches, failAt \in 0..MaxBatch :
            InsertComponents(comps, failAt)
       /\ UNCHANGED <<hvars, yvars, qvars, wvars, avars, pvars, rvars, cvars>>
    \/ /\ \E stats \in FaultStatBatches, failAt \in 0..MaxBatch :
            UpdateComponentStats(stats, failAt)
       /\ UNCHANGED <<hvars, yvars, qvars, wvars, avars, pvars, rvars, cvars>>
    \/ /\ \E edges \in EdgeBatches, failAt \in 0..MaxBatch :
            InsertDependencyEdges(edges, failAt)
       /\ UNCHANGED <<hvars, yvars, qvars, wvars, avars, pvars, rvars, cvars>>
    \/ /\ ClearDependencies
       /\ UNCHANGED <<hvars, yvars, qvars, wvars, avars, pvars, rvars, cvars>>
    \/ /\ \E resps \in RepairAnswers, failAt \in 0..MaxBatch :
            Repair(resps, failAt)
       /\ UNCHANGED <<hvars, yvars, qvars, wvars, avars, pvars, rvars, cvars>>

\* getDependenciesForComponent(id): metadata_dependencies d JOIN
\* metadata_components s ON d.sourceId = s.id JOIN metadata_components t
\* ON d.targetId = t.id WHERE d.sourceId = ? OR d.targetId = ?; the
\* dependencyId of a row is its position in the table
getDependenciesForComponent(deps, rows, id) ==
    LET Row(cid) == rows[CHOOSE k \in DOMAIN rows : rows[k].id = cid]
        Joined(d) == /\ \E k \in DOMAIN rows : rows[k].id = deps[d].sourceId
                     /\ \E k \in DOMAIN rows : rows[k].id = deps[d].targetId
        Touches(d) == deps[d].sourceId = id \/ deps[d].targetId = id
        View(d) == [dependencyId |-> d,
                    metadataComponentId |-> deps[d].sourceId,
                    metadataComponentName |-> Row(deps[d].sourceId).name,
                    metadataComponentType |-> Row(deps[d].sourceId).type,
                    refMetadataComponentId |-> deps[d].targetId,
                    refMetadataComponentName |-> Row(deps[d].targetId).name,
                    refMetadataComponentType |-> Row(deps[d].targetId).type]
        kept == SelectSeq([d \in DOMAIN deps |-> d], LAMBDA d : Joined(d) /\ Touches(d))
    IN  [n \in DOMAIN kept |-> View(kept[n])]

\* the ids the per-component query is asked for
QueryIds == {"a", "b"}

(***************************************************************************)
(* The sync command (src/unnamed/part_003, lines 113-197).  The org is     *)
(* unchanged between the runs: it answers every query of a run from        *)
(* `remote`, and the harvesters return its records in any order.           *)
(***************************************************************************)
\* items the org lists (sf org list metadata): with an id, with a fileName
\* only, with neither
RemoteMetadataItems ==
    { [id |-> "a", fileName |-> "f1", fullName |-> "n1", type |-> "t1"],
      [id |-> "b", fileName |-> "f2", fullName |-> "n1", type |-> "t1"],
      [id |-> "",  fileName |-> "f3", fullName |-> "n2", type |-> "t2"],
      [id |-> "",  fileName |-> "",   fullName |-> "n2", type |-> "t2"] }

\* rows of the org's MetadataComponentDependency table, one per ordered
\* pair: between listed components, to a component that is not listed, and
\* one without a referenced id
SyncDependencyRows ==
    { [MetadataComponentId |-> "a", MetadataComponentName |-> "n1",
       MetadataComponentType |-> "t1", RefMetadataComponentId |-> "b",
       RefMetadataComponentName |-> "n1", RefMetadataComponentType |-> "t1"],
      [MetadataComponentId |-> "b", MetadataComponentName |-> "n1",
       MetadataComponentType |-> "t1", RefMetadataComponentId |-> "c",
       RefMetadataComponentName |-> "n2", RefMetadataComponentType |-> "t2"],
      [MetadataComponentId |-> "a", MetadataComponentName |-> "n1",
       MetadataComponentType |-> "t1", RefMetadataComponentId |-> "",
       RefMetadataComponentName |-> "", RefMetadataComponentType |-> ""] }

\* what fetchApexStats returns for the org
RemoteStats ==
    { <<>>, <<[id |-> "a", size |-> Some(10), coverage |-> Some(80)]>> }

\* the sequences that hold each element of the set S once
Orderings(S) == {q \in SeqsUpTo(S, Cardinality(S)) : SeqToSet(q) = S /\ Len(q) = Cardinality(S)}

MetadataOrderings == [S \in SUBSET RemoteMetadataItems |-> Orderings(S)]

DependencyOrderings == [S \in SUBSET SyncDependencyRows |-> Orderings(S)]

\* `m.id` without its fallback (the mutant of IdOrFileName)
IdOrFileNameMutant(m) == m.id

\* `m.id || m.fileName`
IdOrFileName(m) == IF m.id # "" THEN m.id ELSE m.fileName

\* allMeta.map(...).filter(c => c.id)
ComponentRecordsOf(allMeta) ==
    SelectSeq([k \in DOMAIN allMeta |->
                 [id |-> IdOrFileName(allMeta[k]), name |-> allMeta[k].fullName,
                  type |-> allMeta[k].type]],
              LAMBDA c : HasId(c.id))

\* dependencies.map(...).filter(e => e.sourceId && e.targetId)
EdgesOf(deps) ==
    SelectSeq([k \in DOMAIN deps |->
                 [sourceId |-> deps[k].MetadataComponentId,
                  targetId |-> deps[k].RefMetadataComponentId]],
              LAMBDA e : HasId(e.sourceId) /\ HasId(e.targetId))

NodeIds(rows) == {rows[k].id : k \in DOMAIN rows}

EdgePairs(rows) == {<<rows[k].sourceId, rows[k].targetId>> : k \in DOMAIN rows}

SyncIdle ==
    /\ syncPc = "idle"
    /\ syncRun = 0
    /\ remote = [meta |-> {}, stats |-> <<>>, deps |-> {}]
    /\ syncDeps = <<>>
    /\ firstRun = [nodes |-> {}, edges |-> {}]

SyncInit ==
    /\ syncPc = "start"
    /\ syncRun = 1
    /\ remote \in [meta : SUBSET RemoteMetadataItems, stats : RemoteStats,
                   deps : SUBSET SyncDependencyRows]
    /\ syncDeps = <<>>
    /\ firstRun = [nodes |-> {}, edges |-> {}]

\* the mutant of AfterUnlink that leaves the database file in place
AfterUnlinkMutant(table) == table

\* fs.unlinkSync(dbPath) and then initDb(): the table is created empty
AfterUnlink(table) == <<>>

\* sync, up to the harvest: with --clean the database file is deleted and
\* initDb creates empty tables, without it clearDependencies empties them
SyncStart(clean) ==
    /\ syncPc = "start"
    /\ IF clean
       THEN /\ components' = AfterUnlink(components)
            /\ dependencies' = AfterUnlink(dependencies)
            /\ firstWritten' = <<>>
            /\ lastOp' = Op("initDb")
            /\ UNCHANGED foreignKeys
       ELSE ClearDependencies
    /\ syncPc' = "components"
    /\ UNCHANGED <<syncRun, remote, syncDeps, firstRun>>

\* 1. fetchAllMetadata returned allMeta; insertComponents(componentRecords)
SyncComponents(allMeta) ==
    /\ syncPc = "components"
    /\ InsertComponents(ComponentRecordsOf(allMeta), 0)
    /\ syncPc' = "stats"
    /\ UNCHANGED <<syncRun, remote, syncDeps, firstRun>>

\* 2. fetchApexStats returned; updateComponentStats(stats)
SyncStats ==
    /\ syncPc = "stats"
    /\ UpdateComponentStats(remote.stats, 0)
    /\ syncPc' = "extras"
    /\ UNCHANGED <<syncRun, remote, syncDeps, firstRun>>

\* 3. fetchAllDependencies returned deps; insertComponents(extraComponents)
SyncExtras(deps) ==
    /\ syncPc = "extras"
    /\ syncDeps' = deps
    /\ LET extraComponents == FoundComponents(<<>>, deps)
       IN  IF extraComponents # <<>>
           THEN InsertComponents(extraComponents, 0)
           ELSE UNCHANGED <<components, dependencies, lastOp, firstWritten, foreignKeys>>
    /\ syncPc' = "edges"
    /\ UNCHANGED <<syncRun, remote, firstRun>>

\* insertDependencyEdges(edges); "Done! Sync complete."
SyncEdges ==
    /\ syncPc = "edges"
    /\ InsertDependencyEdges(EdgesOf(syncDeps), 0)
    /\ syncPc' = IF lastOp'.threw THEN "failed" ELSE "done"
    /\ firstRun' = IF syncRun = 1 /\ ~lastOp'.threw
                   THEN [nodes |-> NodeIds(components'), edges |-> EdgePairs(dependencies')]
                   ELSE firstRun
    /\ UNCHANGED <<syncRun, remote, syncDeps>>

\* one transaction around the whole command, rolled back by the throw: the
\* mutant of AfterAbort
AfterAbortMutant(table) == <<>>

\* console.error; process.exit(1): each store write of the command ran in
\* a transaction of its own, those that returned stay committed
AfterAbort(table) == table

\* a remote call of the harvest throws (the type discovery of
\* fetchAllMetadata or of fetchAllDependencies, fetchApexStats): the catch
\* prints the error and exits with status 1
SyncThrow ==
    /\ syncPc \in {"components", "stats", "extras"}
    /\ syncPc' = "failed"
    /\ components' = AfterAbort(components)
    /\ dependencies' = AfterAbort(dependencies)
    /\ UNCHANGED <<lastOp, firstWritten, foreignKeys>>
    /\ UNCHANGED <<syncRun, remote, syncDeps, firstRun>>

\* the command is run again against the same org
SyncAgain ==
    /\ syncPc = "done"
    /\ syncRun = 1
    /\ syncRun' = 2
    /\ syncPc' = "start"
    /\ syncDeps' = <<>>
    /\ UNCHANGED <<svars, remote, firstRun>>

\* between two runs the org drops a component from its inventory or a row
\* from its dependency table
SyncChange ==
    /\ syncPc = "done"
    /\ syncRun = 1
    /\ \/ \E m \in remote.meta : remote' = [remote EXCEPT !.meta = @ \ {m}]
       \/ \E d \in remote.deps : remote' = [remote EXCEPT !.deps = @ \ {d}]
    /\ syncRun' = 2
    /\ syncPc' = "start"
    /\ syncDeps' = <<>>
    /\ UNCHANGED <<svars, firstRun>>

SyncNext ==
    \/ /\ \E clean \in BOOLEAN : SyncStart(clean)
       /\ UNCHANGED <<hvars, qvars, wvars, avars, pvars, rvars, cvars>>
    \/ /\ \E allMeta \in MetadataOrderings[remote.meta] : SyncComponents(allMeta)
       /\ UNCHANGED <<hvars, qvars, wvars, avars, pvars, rvars, cvars>>
    \/ /\ SyncStats
       /\ UNCHANGED <<hvars, qvars, wvars, avars, pvars, rvars, cvars>>
    \/ /\ \E deps \in DependencyOrderings[remote.deps] : SyncExtras(deps)
       /\ UNCHANGED <<hvars, qvars, wvars, avars, pvars, rvars, cvars>>
    \/ /\ SyncEdges
       /\ UNCHANGED <<hvars, qvars, wvars, avars, pvars, rvars, cvars>>
    \/ /\ SyncThrow
       /\ UNCHANGED <<hvars, qvars, wvars, avars, pvars, rvars, cvars>>
    \/ /\ SyncAgain
       /\ UNCHANGED <<hvars, qvars, wvars, avars, pvars, rvars, cvars>>

\* the sync command run again after the org changed
ResyncNext ==
    \/ SyncNext
    \/ /\ SyncChange
       /\ UNCHANGED <<hvars, qvars, wvars, avars, pvars, rvars, cvars>>

(***************************************************************************)
(* searchComponents (src/src/db.ts, lines 315-318).  Strings are sequences *)
(* of one-character strings, so that LIKE is computed on their characters. *)
(***************************************************************************)
Digits == <<"0", "1", "2", "3", "4", "5", "6", "7", "8", "9">>

\* the id of the k-th row, two digits
RowId(k) == <<Digits[((k \div 10) % 10) + 1], Digits[(k % 10) + 1]>>

\* a table of n components in storage order; row `special` is named a_c,
\* the others Acc
TableOf(n, special) ==
    [k \in 1..n |-> [id |-> RowId(k),
                     name |-> IF k = special THEN <<"a", "_", "c">>
                              ELSE <<"A", "c", "c">>]]

\* the queries
SearchTerms ==
    { <<>>, <<"a">>, <<"C", "C">>, <<"_">>, <<"%">>, <<"a", "_", "c">>,
      <<"5">>, <<"z">> }

\* LIKE folds the case of ASCII letters
Fold(c) == CASE c = "A" -> "a" [] c = "C" -> "c" [] OTHER -> c

\* str LIKE pattern, without ESCAPE: % matches any run of characters and _
\* any one character
RECURSIVE Like(_, _)
Like(pattern, str) ==
    IF pattern = <<>> THEN str = <<>>
    ELSE IF Head(pattern) = "%"
         THEN Like(Tail(pattern), str) \/ (str # <<>> /\ Like(pattern, Tail(str)))
         ELSE /\ str # <<>>
              /\ Head(pattern) = "_" \/ Fold(Head(pattern)) = Fold(Head(str))
              /\ Like(Tail(pattern), Tail(str))

\* LIMIT n
Limit(rows, n) == IF Len(rows) <= n THEN rows ELSE SubSeq(rows, 1, n)

\* SELECT * FROM metadata_components WHERE name LIKE ? OR id LIKE ?
\* LIMIT 50, both parameters `%${query}%`
searchComponents(rows, query) ==
    LET term == <<"%">> \o query \o <<"%">>
    IN  Limit(SelectSeq(rows, LAMBDA r : Like(term, r.name) \/ Like(term, r.id)),
              SEARCH_LIMIT)

SearchIdle ==
    /\ searchTable = <<>>
    /\ searchTerm = Null
    /\ searchResult = <<>>

SearchInit ==
    /\ \E n \in 0..MaxRows, special \in {0, 1, SEARCH_LIMIT + 1} :
          searchTable = TableOf(n, special)
    /\ searchTerm = Null
    /\ searchResult = <<>>

\* GET /api/components?q=query
SearchComponents(query) ==
    /\ searchTerm' = Some(query)
    /\ searchResult' = searchComponents(searchTable, query)
    /\ UNCHANGED searchTable

SearchNext ==
    /\ \E query \in SearchTerms : SearchComponents(query)
    /\ UNCHANGED <<hvars, svars, yvars, wvars, avars, pvars, rvars, cvars>>

(***************************************************************************)
(* GET /api/dependencies/:id (src/src/server.ts, lines 93-161) and         *)
(* fetchDependenciesForId (src/src/salesforce.ts, lines 104-126).          *)
(***************************************************************************)
\* the org's rows that name id as either endpoint
LiveRows(id) ==
    IF id = "a"
    THEN <<[MetadataComponentId |-> "a", MetadataComponentName |-> "n1",
            MetadataComponentType |-> "t1", RefMetadataComponentId |-> "b",
            RefMetadataComponentName |-> "n1", RefMetadataComponentType |-> "t1"],
           [MetadataComponentId |-> "c", MetadataComponentName |-> "n2",
            MetadataComponentType |-> "t2", RefMetadataComponentId |-> "a",
            RefMetadataComponentName |-> "n1", RefMetadataComponentType |-> "t1"]>>
    ELSE IF id = "b"
    THEN <<[MetadataComponentId |-> "a", MetadataComponentName |-> "n1",
            MetadataComponentType |-> "t1", RefMetadataComponentId |-> "b",
            RefMetadataComponentName |-> "n1", RefMetadataComponentType |-> "t1"]>>
    ELSE <<>>

\* outcomes of the `sf data query` command for id: the command fails, it
\* prints no JSON, it prints a JSON error, a JSON document without a
\* result or without records, or the rows
LiveResponses(id) ==
    { [kind |-> "cmdError", status |-> 1, hasResult |-> FALSE, hasRecords |-> FALSE,
       records |-> <<>>],
      [kind |-> "badJson", status |-> 0, hasResult |-> FALSE, hasRecords |-> FALSE,
       records |-> <<>>],
      [kind |-> "json", status |-> 1, hasResult |-> FALSE, hasRecords |-> FALSE,
       records |-> <<>>],
      [kind |-> "json", status |-> 1, hasResult |-> TRUE, hasRecords |-> FALSE,
       records |-> <<>>],
      [kind |-> "json", status |-> 0, hasResult |-> FALSE, hasRecords |-> FALSE,
       records |-> <<>>],
      [kind |-> "json", status |-> 0, hasResult |-> TRUE, hasRecords |-> FALSE,
       records |-> <<>>],
      [kind |-> "json", status |-> 0, hasResult |-> TRUE, hasRecords |-> TRUE,
       records |-> LiveRows(id)] }

\* fetchDependenciesForId: [threw, defined, value]; value is undefined
\* when the result has no records
fetchDependenciesForId(resp) ==
    IF resp.kind = "cmdError"
    THEN [threw |-> TRUE, message |-> "Command failed", defined |-> FALSE, value |-> <<>>]
    ELSE IF resp.kind = "badJson"
    THEN [threw |-> TRUE, message |-> "Invalid JSON response from Salesforce",
          defined |-> FALSE, value |-> <<>>]
    ELSE IF resp.status = 0 /\ resp.hasResult
    THEN [threw |-> FALSE, message |-> "", defined |-> resp.hasRecords,
          value |-> resp.records]
    ELSE [threw |-> TRUE, message |-> "Salesforce API Error",
          defined |-> FALSE, value |-> <<>>]

\* compMap.get(id) || {} and its .size / .coverage
SizeOf(rows, id) ==
    IF \E k \in DOMAIN rows : rows[k].id = id
    THEN rows[CHOOSE k \in DOMAIN rows : rows[k].id = id].size
    ELSE Null

CoverageOf(rows, id) ==
    IF \E k \in DOMAIN rows : rows[k].id = id
    THEN rows[CHOOSE k \in DOMAIN rows : rows[k].id = id].coverage
    ELSE Null

\* the body of the inner try block: the remote call, getComponents() and
\* records.map; records.map throws a TypeError when records is undefined
LiveLookup(rows, resp) ==
    LET fetched == fetchDependenciesForId(resp)
    IN  IF fetched.threw
        THEN [threw |-> TRUE, message |-> fetched.message, value |-> <<>>]
        ELSE IF ~fetched.defined
        THEN [threw |-> TRUE, message |-> "Cannot read properties of undefined",
              value |-> <<>>]
        ELSE [threw |-> FALSE, message |-> "",
              value |-> [k \in DOMAIN fetched.value |->
                  [metadataComponentId |-> fetched.value[k].MetadataComponentId,
                   metadataComponentSize |->
                       SizeOf(rows, fetched.value[k].MetadataComponentId),
                   metadataComponentCoverage |->
                       CoverageOf(rows, fetched.value[k].MetadataComponentId),
                   refMetadataComponentId |-> fetched.value[k].RefMetadataComponentId,
                   refMetadataComponentSize |->
                       SizeOf(rows, fetched.value[k].RefMetadataComponentId),
                   refMetadataComponentCoverage |->
                       CoverageOf(rows, fetched.value[k].RefMetadataComponentId)]]]

\* the handler without its catch clauses: the rejection of the async
\* handler is unhandled and ends the process (the mutant of Respond)
RespondMutant(outcome) ==
    IF outcome.threw
    THEN [status |-> 0, error |-> outcome.message, body |-> <<>>, escaped |-> TRUE]
    ELSE [status |-> 200, error |-> "", body |-> outcome.value, escaped |-> FALSE]

\* res.json(results) after the try block, or the catch clause's
\* res.status(500).json({ error: e.message })
Respond(outcome) ==
    IF outcome.threw
    THEN [status |-> 500, error |-> outcome.message, body |-> <<>>, escaped |-> FALSE]
    ELSE [status |-> 200, error |-> "", body |-> outcome.value, escaped |-> FALSE]

\* a handler that writes the rows it fetched to the edge table (the mutant
\* of TableAfterLookup)
TableAfterLookupMutant(table, outcome) ==
    table \o [k \in DOMAIN outcome.value |->
                [sourceId |-> outcome.value[k].metadataComponentId,
                 targetId |-> outcome.value[k].refMetadataComponentId]]

\* a store table after the handler ran: its only statements are SELECTs
\* (getComponents, getDependenciesForComponent)
TableAfterLookup(table, outcome) == table

\* stores the server is started on
ServedStores ==
    { [components |-> <<>>, dependencies |-> <<>>],
      [components |-> <<[id |-> "a", name |-> "n1", type |-> "t1",
                         size |-> Some(10), coverage |-> Some(80)],
                        [id |-> "b", name |-> "n1", type |-> "t1",
                         size |-> Null, coverage |-> Null]>>,
       dependencies |-> <<[sourceId |-> "a", targetId |-> "b"]>>] }

ServeIdle ==
    /\ serverUp = FALSE
    /\ serveOrg = Null
    /\ request = Null
    /\ response = Null
    /\ liveFailed = FALSE

\* startServer(port, targetOrg) has run: initDb() and app.listen
ServeInit ==
    /\ serverUp = TRUE
    /\ serveOrg \in {Null, Some("org")}
    /\ request = Null
    /\ response = Null
    /\ liveFailed = FALSE
    /\ \E st \in ServedStores :
          /\ components = st.components
          /\ dependencies = st.dependencies
    /\ lastOp = Op("initDb")
    /\ firstWritten = <<>>
    /\ foreignKeys \in BOOLEAN

\* one GET /api/dependencies/:id request, from its arrival to its response
GetDependencies(id, source, resp) ==
    LET live == serveOrg # Null /\ source # "local"
        outcome == IF live THEN LiveLookup(components, resp)
                   ELSE [threw |-> FALSE, message |-> "",
                         value |-> getDependenciesForComponent(dependencies, components, id)]
        sent == Respond(outcome)
    IN  /\ serverUp
        /\ request' = Some([id |-> id, live |-> live,
                            answer |-> IF live THEN Some(resp) ELSE Null])
        /\ response' = Some([status |-> sent.status, error |-> sent.error,
                             body |-> sent.body])
        /\ serverUp' = ~sent.escaped
        /\ liveFailed' = (liveFailed \/ (live /\ outcome.threw))
        /\ components' = TableAfterLookup(components, outcome)
        /\ dependencies' = IF live THEN TableAfterLookup(dependencies, outcome)
                           ELSE dependencies
        /\ UNCHANGED <<serveOrg, lastOp, firstWritten, foreignKeys>>

ServeIds == {"a", "b", "z"}

ServeNext ==
    /\ \E id \in ServeIds, source \in {"local", "none"} :
          \E resp \in LiveResponses(id) : GetDependencies(id, source, resp)
    /\ UNCHANGED <<hvars, yvars, qvars, avars, pvars, rvars, cvars>>

(***************************************************************************)
(* fetchApexStats (src/src/salesforce.ts, lines 128-183).                  *)
(***************************************************************************)
\* what the org holds: sizes of classes and triggers, and coverage
\* aggregates; a field that is null or absent is Null
ClassRowLists ==
    { <<>>,
      <<[Id |-> "a", LengthWithoutComments |-> Some(10)]>>,
      <<[Id |-> "a", LengthWithoutComments |-> Some(0)],
        [Id |-> "c", LengthWithoutComments |-> Null]>>,
      <<[Id |-> "",  LengthWithoutComments |-> Some(5)],
        [Id |-> "c", LengthWithoutComments |-> Some(7)]>> }

TriggerRowLists ==
    { <<>>,
      <<[Id |-> "b", LengthWithoutComments |-> Some(20)]>> }

CoverageRowLists ==
    { <<>>,
      <<[ApexClassOrTriggerId |-> "b", NumLinesCovered |-> Null,
         NumLinesUncovered |-> Some(3)],
        [ApexClassOrTriggerId |-> "d", NumLinesCovered |-> Some(2),
         NumLinesUncovered |-> Null]>> }
    \cup { <<[ApexClassOrTriggerId |-> id, NumLinesCovered |-> Some(c),
              NumLinesUncovered |-> Some(u)]>> :
             id \in {"a", ""}, c \in 0..MaxLines, u \in 0..MaxLines }

\* outcomes of one `sf data query` command over the rows the org holds
QueryResponses(lists) ==
    { [kind |-> "cmdError", status |-> 1, hasResult |-> FALSE, hasRecords |-> FALSE,
       records |-> <<>>],
      [kind |-> "badJson", status |-> 0, hasResult |-> FALSE, hasRecords |-> FALSE,
       records |-> <<>>],
      [kind |-> "json", status |-> 1, hasResult |-> FALSE, hasRecords |-> FALSE,
       records |-> <<>>],
      [kind |-> "json", status |-> 0, hasResult |-> TRUE, hasRecords |-> FALSE,
       records |-> <<>>] }
    \cup { [kind |-> "json", status |-> 0, hasResult |-> TRUE, hasRecords |-> TRUE,
            records |-> l] : l \in lists }

\* query without its try/catch (the mutant of query)
queryUncaught(resp) ==
    IF resp.kind # "json" THEN [threw |-> TRUE, defined |-> FALSE, value |-> <<>>]
    ELSE IF resp.status = 0 /\ resp.hasResult
         THEN [threw |-> FALSE, defined |-> resp.hasRecords, value |-> resp.records]
    ELSE [threw |-> FALSE, defined |-> TRUE, value |-> <<>>]

\* the local function query of fetchApexStats: res.result.records, which
\* is undefined when the result has no records, or []
query(resp) ==
    IF resp.kind # "json" THEN [threw |-> FALSE, defined |-> TRUE, value |-> <<>>]
    ELSE IF resp.status = 0 /\ resp.hasResult
         THEN [threw |-> FALSE, defined |-> resp.hasRecords, value |-> resp.records]
    ELSE [threw |-> FALSE, defined |-> TRUE, value |-> <<>>]

\* `x || 0` on a number that may be null
OrZero(x) == IF x = Null \/ x = Some(0) THEN 0 ELSE x[1]

\* Math.round of the quotient n / d of naturals, d > 0: the nearest
\* integer, a half rounds up
Round(n, d) == (2 * n + d) \div (2 * d)

\* pct of one coverage row
Pct(covered, uncovered) ==
    LET total == covered + uncovered
    IN  IF total > 0 THEN Round(covered * 100, total) ELSE 0

\* processSize(records): statsMap.set(r.Id, { id, size })
RECURSIVE processSize(_, _)
processSize(m, records) ==
    IF records = <<>> THEN m
    ELSE LET r == Head(records)
             next == IF HasId(r.Id) /\ r.LengthWithoutComments # Null
                     THEN MapSet(m, [id |-> r.Id, size |-> r.LengthWithoutComments,
                                     coverage |-> Null])
                     ELSE m
         IN  processSize(next, Tail(records))

\* the coverage loop: existing = statsMap.get(id) || { id };
\* existing.coverage = pct; statsMap.set(id, existing)
RECURSIVE processCoverage(_, _)
processCoverage(m, coverage) ==
    IF coverage = <<>> THEN m
    ELSE LET c == Head(coverage)
             id == c.ApexClassOrTriggerId
             pct == Pct(OrZero(c.NumLinesCovered), OrZero(c.NumLinesUncovered))
             next == IF ~HasId(id) THEN m
                     ELSE IF \E k \in DOMAIN m : m[k].id = id
                     THEN [k \in DOMAIN m |->
                             IF m[k].id = id THEN [m[k] EXCEPT !.coverage = Some(pct)]
                             ELSE m[k]]
                     ELSE Append(m, [id |-> id, size |-> Null, coverage |-> Some(pct)])
         IN  processCoverage(next, Tail(coverage))

\* fetchApexStats: [threw, value]; iterating over undefined records throws
\* a TypeError
fetchApexStats(in) ==
    LET classes == query(in.classes)
        triggers == query(in.triggers)
        coverage == query(in.coverage)
    IN  IF classes.threw \/ triggers.threw \/ coverage.threw
           \/ ~classes.defined \/ ~triggers.defined \/ ~coverage.defined
        THEN [threw |-> TRUE, value |-> <<>>]
        ELSE [threw |-> FALSE,
              value |-> processCoverage(processSize(processSize(<<>>, classes.value),
                                                    triggers.value),
                                        coverage.value)]

ClassResponses == QueryResponses(ClassRowLists)

TriggerResponses == QueryResponses(TriggerRowLists)

CoverageResponses == QueryResponses(CoverageRowLists)

ApexIdle ==
    /\ apexIn = <<>>
    /\ apexOut = Null

ApexInit ==
    /\ apexIn \in [classes : ClassResponses, triggers : TriggerResponses,
                   coverage : CoverageResponses]
    /\ apexOut = Null

\* the sync command's `await fetchApexStats(options.targetOrg)`
FetchApexStats ==
    /\ apexOut = Null
    /\ apexOut' = Some(fetchApexStats(apexIn))
    /\ UNCHANGED apexIn

ApexNext == FetchApexStats /\ UNCHANGED <<hvars, svars, yvars, qvars, wvars, pvars, rvars, cvars>>

(***************************************************************************)
(* getDatabasePath and the clean, sync and serve commands                  *)
(* (src/unnamed/part_003, lines 75-210).                                   *)
(***************************************************************************)
\* Strings are sequences of UTF-16 code units, each a one-character string.
\* the class [a-zA-Z0-9.@_-]
AllowedChars ==
    { "a", "b", "c", "d", "e", "f", "g", "h", "i", "j", "k", "l", "m",
      "n", "o", "p", "q", "r", "s", "t", "u", "v", "w", "x", "y", "z",
      "A", "B", "C", "D", "E", "F", "G", "H", "I", "J", "K", "L", "M",
      "N", "O", "P", "Q", "R", "S", "T", "U", "V", "W", "X", "Y", "Z",
      "0", "1", "2", "3", "4", "5", "6", "7", "8", "9", ".", "@", "_", "-" }

\* targetOrg used as it is (the mutant of sanitizedOrg)
sanitizedOrgMutant(targetOrg) == targetOrg

\* targetOrg.replace(/[^a-zA-Z0-9.@_-]/g, '_')
sanitizedOrg(targetOrg) ==
    [k \in DOMAIN targetOrg |->
        IF targetOrg[k] \in AllowedChars THEN targetOrg[k] ELSE "_"]

DefaultDb == <<"d","e","p","e","n","d","e","n","c","i","e","s",".","d","b">>

\* getDatabasePath(targetOrg) under the environment value env of
\* DATABASE_PATH; an unset variable, an undefined argument and an empty
\* string are falsy
getDatabasePath(env, targetOrg) ==
    IF env # Null /\ env[1] # <<>> THEN env[1]
    ELSE IF targetOrg # Null /\ targetOrg[1] # <<>>
         THEN <<"d","e","p","e","n","d","e","n","c","i","e","s","_">>
                 \o sanitizedOrg(targetOrg[1]) \o <<".","d","b">>
    ELSE DefaultDb

\* getDb(): new Database(process.env.DATABASE_PATH || 'dependencies.db')
DbFileOf(env) == IF env # Null /\ env[1] # <<>> THEN env[1] ELSE DefaultDb

\* the characters org names are made of, and the org names
OrgChars == {"a", "Z", "9", ".", "@", "_", "-", " ", "/"}

OrgNames == SeqsUpTo(OrgChars, MaxOrgLen)

\* values of DATABASE_PATH when a command starts: unset, or set by -d or
\* by the environment
Overrides ==
    { Null, Some(<<>>), Some(<<"x", ".", "d", "b">>), Some(<<"m", "y", " ", "d", "b">>) }

Commands == {"clean", "sync", "serve"}

PathIdle ==
    /\ cliOrg = Null
    /\ cliDb = Null
    /\ cliPaths = <<>>

PathInit ==
    /\ cliOrg \in {Some(org) : org \in OrgNames}
    /\ cliDb \in Overrides
    /\ cliPaths = <<>>

\* `dep-viewer [-d db] cmd -o org`: the database file the command's action
\* works on. clean unlinks dbPath; sync and serve store dbPath in
\* process.env.DATABASE_PATH, from which getDb() opens the file
RunCommand(cmd) ==
    LET dbPath == getDatabasePath(cliDb, cliOrg)
    IN  /\ cmd \notin DOMAIN cliPaths
        /\ cliPaths' = cliPaths @@
              (cmd :> IF cmd = "clean" THEN dbPath ELSE DbFileOf(Some(dbPath)))
        /\ UNCHANGED <<cliOrg, cliDb>>

PathNext ==
    /\ \E cmd \in Commands : RunCommand(cmd)
    /\ UNCHANGED <<hvars, svars, yvars, qvars, wvars, avars, rvars, cvars>>

(***************************************************************************)
(* The visualization client (src/client/src/App.tsx, AppContent).  Texts   *)
(* (names, labels, filters) are sequences of characters; the sizes and     *)
(* positions of the nodes are display values and are left out.             *)
(***************************************************************************)

\* String.prototype.toLowerCase on the letters of the inputs
toLowerCase(str) ==
    [k \in DOMAIN str |->
        CASE str[k] = "A" -> "a" [] str[k] = "B" -> "b" [] str[k] = "T" -> "t"
          [] OTHER -> str[k]]

\* String.prototype.includes
includes(str, part) ==
    \E i \in 0..(Len(str) - Len(part)) : SubSeq(str, i + 1, i + Len(part)) = part

\* new RegExp('^' + f.split('*').join('.*') + '$').test(l): the inputs hold
\* no character the escaping would change
RECURSIVE RegExpTest(_, _)
RegExpTest(f, l) ==
    IF f = <<>> THEN l = <<>>
    ELSE IF Head(f) = "*"
    THEN \E i \in 0..Len(l) : RegExpTest(Tail(f), SubSeq(l, i + 1, Len(l)))
    ELSE l # <<>> /\ Head(l) = Head(f) /\ RegExpTest(Tail(f), Tail(l))

matchFilter(label, filter) ==
    IF filter = <<>> THEN TRUE
    ELSE IF label = <<>> THEN FALSE
    ELSE LET l == toLowerCase(label)
             f == toLowerCase(filter)
         IN  IF includes(f, <<"*">>) THEN RegExpTest(f, l) ELSE includes(l, f)

getEffectiveType(type, name) ==
    IF type = "ApexClass" /\ name # <<>> /\ includes(toLowerCase(name), <<"t", "e", "s", "t">>)
    THEN "ApexTestClass"
    ELSE type

\* the mutant of IsLink that takes a record from an id to itself for a link
IsLinkMutant(d) == d.metadataComponentId # "" /\ d.refMetadataComponentId # ""

\* d.metadataComponentId && d.refMetadataComponentId &&
\* d.metadataComponentId !== d.refMetadataComponentId
IsLink(d) ==
    /\ d.metadataComponentId # ""
    /\ d.refMetadataComponentId # ""
    /\ d.metadataComponentId # d.refMetadataComponentId

\* the types the legend lists: allTypes
allTypes(data) ==
    {getEffectiveType(data[k].metadataComponentType, data[k].metadataComponentName) :
        k \in {i \in DOMAIN data : data[i].metadataComponentType # ""}}
    \cup {getEffectiveType(data[k].refMetadataComponentType, data[k].refMetadataComponentName) :
        k \in {i \in DOMAIN data : data[i].refMetadataComponentType # ""}}

hasIncoming(data) ==
    {data[k].refMetadataComponentId : k \in {i \in DOMAIN data : IsLink(data[i])}}

\* connectionCounts.get(id) || 0
connectionCounts(data, id) ==
    Cardinality({k \in DOMAIN data : IsLink(data[k]) /\ data[k].metadataComponentId = id})
    + Cardinality({k \in DOMAIN data : IsLink(data[k]) /\ data[k].refMetadataComponentId = id})

activeFilterTypes(v) == {t \in DOMAIN v.typeFilters : v.typeFilters[t] # <<>>}

isFilteringActive(v) == activeFilterTypes(v) # {} \/ v.globalFilter # <<>>

\* checkSeed(id, name, rawType) adds the id to matchedIds
checkSeed(v, id, name, rawType) ==
    LET type == getEffectiveType(rawType, name)
    IN  /\ id # ""
        /\ type \in v.visibleTypes
        /\ type \in activeFilterTypes(v) \/ v.globalFilter # <<>>
        /\ matchFilter(name, IF type \in activeFilterTypes(v)
                             THEN v.typeFilters[type] ELSE v.globalFilter)

matchedIds(v) ==
    {v.rawData[k].metadataComponentId :
        k \in {i \in DOMAIN v.rawData :
                 checkSeed(v, v.rawData[i].metadataComponentId,
                           v.rawData[i].metadataComponentName,
                           v.rawData[i].metadataComponentType)}}
    \cup {v.rawData[k].refMetadataComponentId :
        k \in {i \in DOMAIN v.rawData :
                 checkSeed(v, v.rawData[i].refMetadataComponentId,
                           v.rawData[i].refMetadataComponentName,
                           v.rawData[i].refMetadataComponentType)}}

\* the seeds and the neighbours of the seeds
allowedIds(v) ==
    matchedIds(v)
    \cup {v.rawData[k].refMetadataComponentId :
            k \in {i \in DOMAIN v.rawData :
                     IsLink(v.rawData[i]) /\ v.rawData[i].metadataComponentId \in matchedIds(v)}}
    \cup {v.rawData[k].metadataComponentId :
            k \in {i \in DOMAIN v.rawData :
                     IsLink(v.rawData[i]) /\ v.rawData[i].refMetadataComponentId \in matchedIds(v)}}

\* what the effect computes before its last loop: hasIncoming,
\* connectionCounts and allowedIds (null without an active filter)
Prepared(v) ==
    [hasIncoming |-> hasIncoming(v.rawData),
     connectionCounts |->
         [id \in {v.rawData[k].metadataComponentId : k \in DOMAIN v.rawData}
                 \cup {v.rawData[k].refMetadataComponentId : k \in DOMAIN v.rawData} |->
             connectionCounts(v.rawData, id)],
     allowedIds |-> IF isFilteringActive(v) THEN Some(allowedIds(v)) ELSE Null]

isVisible(v, pre, type, name, id) ==
    IF v.showOrphansOnly /\ id \in pre.hasIncoming THEN FALSE
    ELSE IF v.showHighlyConnected /\ pre.connectionCounts[id] < v.connectionThreshold
    THEN FALSE
    ELSE IF type \notin v.visibleTypes THEN FALSE
    ELSE IF pre.allowedIds # Null THEN id \in pre.allowedIds[1]
    ELSE matchFilter(name, IF type \in DOMAIN v.typeFilters
                           THEN v.typeFilters[type] ELSE v.globalFilter)

isSourceVisible(v, pre, d) ==
    /\ d.metadataComponentId # ""
    /\ isVisible(v, pre, getEffectiveType(d.metadataComponentType, d.metadataComponentName),
                 d.metadataComponentName, d.metadataComponentId)

isTargetVisible(v, pre, d) ==
    /\ d.refMetadataComponentType # ""
    /\ d.refMetadataComponentId # ""
    /\ isVisible(v, pre, getEffectiveType(d.refMetadataComponentType, d.refMetadataComponentName),
                 d.refMetadataComponentName, d.refMetadataComponentId)

\* the mutant of MapHas that never finds a key
MapHasMutant(m, id) == FALSE

\* Map.prototype.has on a map kept as the sequence of its values
MapHas(m, id) == \E k \in DOMAIN m : m[k].id = id

\* if (visible && !newNodes.has(node.id)) newNodes.set(node.id, node)
SetNode(newNodes, visible, node) ==
    IF visible /\ ~MapHas(newNodes, node.id) THEN Append(newNodes, node) ELSE newNodes

\* the callback of the third rawData.forEach of the effect on record k
\* (index k - 1): the source node, the target node, the edge
ForRecord(v, pre, k, newNodes, newEdges) ==
    LET d == v.rawData[k]
        source == [id |-> d.metadataComponentId,
                   label |-> d.metadataComponentName,
                   type |-> getEffectiveType(d.metadataComponentType,
                                             d.metadataComponentName)]
        target == [id |-> d.refMetadataComponentId,
                   label |-> d.refMetadataComponentName,
                   type |-> getEffectiveType(d.refMetadataComponentType,
                                             d.refMetadataComponentName)]
        edge == [id |-> IF d.id # "" THEN <<d.id>>
                        ELSE <<"e", d.metadataComponentId,
                               d.refMetadataComponentId, ToString(k - 1)>>,
                 source |-> d.metadataComponentId,
                 target |-> d.refMetadataComponentId]
    IN  CHOOSE r \in {[nodes |-> SetNode(withSource, vis[2], target),
                       edges |-> IF vis[1] /\ vis[2] /\ IsLink(d)
                                 THEN Append(newEdges, edge) ELSE newEdges] :
                         vis \in {<<isSourceVisible(v, pre, d), isTargetVisible(v, pre, d)>>},
                         withSource \in {SetNode(newNodes, isSourceVisible(v, pre, d), source)}} :
            TRUE

\* the third rawData.forEach of the effect, from record k on: newNodes in
\* insertion order and newEdges
RECURSIVE BuildGraph(_, _, _, _, _)
BuildGraph(v, pre, k, newNodes, newEdges) ==
    IF k > Len(v.rawData) THEN [nodes |-> newNodes, edges |-> newEdges]
    ELSE CHOOSE r \in {BuildGraph(v, pre, k + 1, g.nodes, g.edges) :
                          g \in {ForRecord(v, pre, k, newNodes, newEdges)}} : TRUE

\* a.localeCompare(b) on labels of ASCII letters: by letter first, a lower
\* case letter before its upper case one when the letters agree
RECURSIVE localeCompare(_, _)
localeCompare(a, b) ==
    LET letters == <<"a", "b", "e", "s", "t">>
        rank(c) == CHOOSE i \in DOMAIN letters : letters[i] = toLowerCase(<<c>>)[1]
        byCase == IF a = b THEN 0
                  ELSE LET i == CHOOSE j \in DOMAIN a :
                                   a[j] # b[j] /\ \A h \in 1..(j - 1) : a[h] = b[h]
                       IN  IF toLowerCase(<<a[i]>>)[1] = a[i] THEN -1 ELSE 1
    IN  IF toLowerCase(a) = toLowerCase(b) THEN byCase
        ELSE IF a = <<>> THEN -1
        ELSE IF b = <<>> THEN 1
        ELSE IF rank(Head(a)) < rank(Head(b)) THEN -1
        ELSE IF rank(Head(a)) > rank(Head(b)) THEN 1
        ELSE localeCompare(Tail(a), Tail(b))

\* gNodes.sort((a, b) => (a.data.label || '').localeCompare(...)): stable
RECURSIVE SortByLabel(_)
SortByLabel(gNodes) ==
    IF gNodes = <<>> THEN <<>>
    ELSE LET front == SortByLabel(SubSeq(gNodes, 1, Len(gNodes) - 1))
             last == gNodes[Len(gNodes)]
             pos == Cardinality({k \in DOMAIN front :
                                   localeCompare(front[k].label, last.label) <= 0})
         IN  SubSeq(front, 1, pos) \o <<last>> \o SubSeq(front, pos + 1, Len(front))

\* getGroupedLayoutElements(nodes, edges).nodes: the nodes group by group,
\* the groups in the order their types first appear, each sorted by label
RECURSIVE GroupsFrom(_, _)
GroupsFrom(ns, groupTypes) ==
    IF groupTypes = <<>> THEN <<>>
    ELSE SortByLabel(SelectSeq(ns, LAMBDA n :
                        (IF n.type # "" THEN n.type ELSE "Other") = Head(groupTypes)))
         \o GroupsFrom(ns, Tail(groupTypes))

getGroupedLayoutElements(ns) ==
    LET typeOf == [k \in DOMAIN ns |-> IF ns[k].type # "" THEN ns[k].type ELSE "Other"]
        firsts == {k \in DOMAIN ns : \A j \in 1..(k - 1) : typeOf[j] # typeOf[k]}
    IN  GroupsFrom(ns, Pick(typeOf, firsts))

\* the state of the component as the effect reads it
View ==
    [rawData |-> rawData, visibleTypes |-> visibleTypes, typeFilters |-> typeFilters,
     globalFilter |-> globalFilter, showOrphansOnly |-> showOrphansOnly,
     showHighlyConnected |-> showHighlyConnected,
     connectionThreshold |-> connectionThreshold]

\* a state update to v followed by the graph-building effect, which runs
\* because one of its dependencies changed
Render(v) ==
    /\ rawData' = v.rawData
    /\ visibleTypes' = v.visibleTypes
    /\ typeFilters' = v.typeFilters
    /\ globalFilter' = v.globalFilter
    /\ showOrphansOnly' = v.showOrphansOnly
    /\ showHighlyConnected' = v.showHighlyConnected
    /\ connectionThreshold' = v.connectionThreshold
    /\ IF v.rawData = <<>>
       THEN flowNodes' = <<>> /\ flowEdges' = <<>>
       ELSE \E pre \in {Prepared(v)} :
            \E g \in {BuildGraph(v, pre, 1, <<>>, <<>>)} :
               /\ flowNodes' = getGroupedLayoutElements(g.nodes)
               /\ flowEdges' = g.edges

ClientInit ==
    /\ rawData = <<>>
    /\ visibleTypes = {}
    /\ typeFilters = <<>>
    /\ globalFilter = <<>>
    /\ showOrphansOnly = FALSE
    /\ showHighlyConnected = FALSE
    /\ connectionThreshold = 5
    /\ flowNodes = <<>>
    /\ flowEdges = <<>>

\* rows of GET /api/dependencies in the order of the table: a link to a
\* test class, a record from an id to itself, a record without its row id
\* that gives b another type and name, and a record without a target
RawRecords ==
    << [id |-> "1", metadataComponentId |-> "a", metadataComponentName |-> <<"a">>,
       metadataComponentType |-> "ApexClass", refMetadataComponentId |-> "b",
       refMetadataComponentName |-> <<"T", "e", "s", "t">>,
       refMetadataComponentType |-> "ApexClass"],
      [id |-> "2", metadataComponentId |-> "b",
       metadataComponentName |-> <<"T", "e", "s", "t">>,
       metadataComponentType |-> "ApexClass", refMetadataComponentId |-> "b",
       refMetadataComponentName |-> <<"T", "e", "s", "t">>,
       refMetadataComponentType |-> "ApexClass"],
      [id |-> "", metadataComponentId |-> "b", metadataComponentName |-> <<"B">>,
       metadataComponentType |-> "Flow", refMetadataComponentId |-> "a",
       refMetadataComponentName |-> <<"a">>, refMetadataComponentType |-> "ApexClass"],
      [id |-> "4", metadataComponentId |-> "a", metadataComponentName |-> <<"a">>,
       metadataComponentType |-> "ApexClass", refMetadataComponentId |-> "",
       refMetadataComponentName |-> <<>>, refMetadataComponentType |-> ""] >>

\* the responses of the API: any of the rows, in the order of the table
RawResponses == {Pick(RawRecords, keep) : keep \in SUBSET DOMAIN RawRecords}

\* loadAllDependencies: the response replaces rawData and its types become
\* visible
LoadAllDependencies(data) ==
    Render([View EXCEPT !.rawData = data,
                        !.visibleTypes = visibleTypes \cup allTypes(data)])

\* toggleType(type) of a type the legend lists
ToggleType(type) ==
    /\ type \in allTypes(rawData)
    /\ Render([View EXCEPT !.visibleTypes = IF type \in visibleTypes
                                            THEN visibleTypes \ {type}
                                            ELSE visibleTypes \cup {type}])

\* toggleAll(checked); the box is disabled while no type is listed
ToggleAll(checked) ==
    /\ allTypes(rawData) # {}
    /\ Render([View EXCEPT !.visibleTypes = IF checked THEN allTypes(rawData) ELSE {}])

\* the onChange of a type's filter box: an empty text deletes the entry
SetTypeFilter(type, val) ==
    /\ type \in allTypes(rawData)
    /\ Render([View EXCEPT !.typeFilters =
                  IF val # <<>>
                  THEN [t \in DOMAIN typeFilters \cup {type} |->
                          IF t = type THEN val ELSE typeFilters[t]]
                  ELSE [t \in DOMAIN typeFilters \ {type} |-> typeFilters[t]]])

SetGlobalFilter(val) == Render([View EXCEPT !.globalFilter = val])

SetShowOrphansOnly(checked) == Render([View EXCEPT !.showOrphansOnly = checked])

SetShowHighlyConnected(checked) == Render([View EXCEPT !.showHighlyConnected = checked])

\* the onChange of the threshold box, shown while the toggle is on
SetConnectionThreshold(n) ==
    /\ showHighlyConnected
    /\ Render([View EXCEPT !.connectionThreshold = n])

ClientNext ==
    \/ /\ \E data \in RawResponses : LoadAllDependencies(data)
       /\ UNCHANGED <<hvars, svars, yvars, qvars, wvars, avars, pvars, rvars>>
    \/ /\ \E type \in {"ApexClass", "ApexTestClass", "Flow"} : ToggleType(type)
       /\ UNCHANGED <<hvars, svars, yvars, qvars, wvars, avars, pvars, rvars>>
    \/ /\ \E checked \in BOOLEAN : ToggleAll(checked)
       /\ UNCHANGED <<hvars, svars, yvars, qvars, wvars, avars, pvars, rvars>>
    \/ /\ \E type \in {"ApexClass"}, val \in {<<>>, <<"a">>} :
            SetTypeFilter(type, val)
       /\ UNCHANGED <<hvars, svars, yvars, qvars, wvars, avars, pvars, rvars>>
    \/ /\ \E val \in {<<>>, <<"t", "*">>} : SetGlobalFilter(val)
       /\ UNCHANGED <<hvars, svars, yvars, qvars, wvars, avars, pvars, rvars>>
    \/ /\ \E checked \in BOOLEAN : SetShowOrphansOnly(checked)
       /\ UNCHANGED <<hvars, svars, yvars, qvars, wvars, avars, pvars, rvars>>
    \/ /\ \E checked \in BOOLEAN : SetShowHighlyConnected(checked)
       /\ UNCHANGED <<hvars, svars, yvars, qvars, wvars, avars, pvars, rvars>>
    \/ /\ \E n \in {2} : SetConnectionThreshold(n)
       /\ UNCHANGED <<hvars, svars, yvars, qvars, wvars, avars, pvars, rvars>>

RepairIdle ==
    /\ repairPc = "idle"
    /\ repairMissing = <<>>
    /\ repairChunks = <<>>
    /\ repairCalls = <<>>
    /\ repairFound = <<>>

OthersIdle == ServeIdle /\ ApexIdle /\ PathIdle /\ RepairIdle /\ ClientInit

PathSpecInit ==
    /\ HarvestInit /\ StoreClosed /\ SyncIdle /\ SearchIdle /\ ServeIdle /\ ApexIdle
    /\ PathInit /\ RepairIdle /\ ClientInit

SpecPath == PathSpecInit /\ [][PathNext]_vars

ApexSpecInit ==
    /\ HarvestInit /\ StoreClosed /\ SyncIdle /\ SearchIdle /\ ServeIdle /\ ApexInit
    /\ PathIdle /\ RepairIdle /\ ClientInit

SpecApex == ApexSpecInit /\ [][ApexNext]_vars

ServeSpecInit ==
    /\ HarvestInit /\ ServeInit /\ SyncIdle /\ SearchIdle /\ ApexIdle /\ PathIdle
    /\ RepairIdle /\ ClientInit

SpecServe == ServeSpecInit /\ [][ServeNext]_vars

ClientSpecInit ==
    /\ HarvestInit /\ StoreClosed /\ SyncIdle /\ SearchIdle
    /\ ServeIdle /\ ApexIdle /\ PathIdle /\ RepairIdle /\ ClientInit

SpecClient == ClientSpecInit /\ [][ClientNext]_vars

SearchSpecInit == HarvestInit /\ StoreClosed /\ SyncIdle /\ SearchInit /\ OthersIdle

SpecSearch == SearchSpecInit /\ [][SearchNext]_vars

(***************************************************************************)
(* The repair command on a store with many dangling ids.                   *)
(***************************************************************************)
\* the ids of components that edges name and the components table lacks
DanglingIds ==
    << "d01", "d02", "d03", "d04", "d05", "d06", "d07", "d08", "d09",
       "d10", "d11", "d12", "d13", "d14", "d15", "d16", "d17", "d18",
       "d19", "d20", "d21", "d22", "d23", "d24", "d25", "d26", "d27",
       "d28", "d29", "d30", "d31", "d32", "d33", "d34", "d35", "d36",
       "d37", "d38", "d39", "d40", "d41", "d42", "d43", "d44", "d45" >>

\* a store a non-enforcing build leaves after edges were written whose
\* sources have no row: component a, optionally the edge (a, a), and the
\* edges (DanglingIds[k], a) for k in 1..n
HubRow == [id |-> "a", name |-> "n1", type |-> "t1", size |-> Null, coverage |-> Null]

DanglingEdges(n) == [k \in 1..n |-> [sourceId |-> DanglingIds[k], targetId |-> "a"]]

RepairInit ==
    /\ components = <<HubRow>>
    /\ \E n \in 0..MaxDangling, loop \in BOOLEAN :
          dependencies = (IF loop THEN <<[sourceId |-> "a", targetId |-> "a"]>> ELSE <<>>)
                            \o DanglingEdges(n)
    /\ lastOp = Op("initDb")
    /\ firstWritten = NoteFirst(<<>>, <<HubRow>>)
    /\ foreignKeys = FALSE

\* what the org answers to the by-id query for one chunk: the call throws,
\* or it returns no record, a record for every id of the chunk, or a
\* record for every id of the chunk but its first
AnswerKinds == {"throw", "none", "all", "rest"}

RecordFor(id) ==
    [MetadataComponentId |-> id, MetadataComponentName |-> "n2",
     MetadataComponentType |-> "t2", RefMetadataComponentId |-> "a",
     RefMetadataComponentName |-> "n1", RefMetadataComponentType |-> "t1"]

AnswerTo(chunk, kind) ==
    CASE kind = "throw" -> [threw |-> TRUE, records |-> <<>>]
      [] kind = "none"  -> [threw |-> FALSE, records |-> <<>>]
      [] kind = "all"   -> [threw |-> FALSE,
                            records |-> [k \in DOMAIN chunk |-> RecordFor(chunk[k])]]
      [] OTHER          -> [threw |-> FALSE,
                            records |-> [k \in 1..(Len(chunk) - 1) |->
                                            RecordFor(chunk[k + 1])]]

\* one run of the repair command; the org's answers to the chunks are
\* chosen freely
RepairRun ==
    \E chunks \in {Chunks(MissingIds(dependencies, components))} :
        \E kinds \in [DOMAIN chunks -> AnswerKinds] :
           Repair([n \in DOMAIN chunks |-> AnswerTo(chunks[n], kinds[n])], 0)

RepairNext == RepairRun /\ UNCHANGED <<hvars, yvars, qvars, wvars, avars, pvars, rvars, cvars>>

RepairSpecInit == HarvestInit /\ RepairInit /\ SyncIdle /\ SearchIdle /\ OthersIdle

SpecRepair == RepairSpecInit /\ [][RepairNext]_vars

(***************************************************************************)
(* The repair command step by step: its remote calls as events.            *)
(***************************************************************************)
\* the calls the command has issued and not yet been answered
CallsInFlight == {k \in DOMAIN repairCalls : repairCalls[k] = "inflight"}

\* Promise.all over the chunks in place of the await in the loop: the
\* mutant of AwaitCall that goes on to the next chunk without waiting
AwaitCallMutant(p) == p

\* `await fetchDependenciesByIds(...)` in the body of the for-of loop: the
\* action is suspended until the call settles
AwaitCall(p) == "await"

\* from initDb() to the chunks array, or the early return
RepairBegin ==
    /\ repairPc = "start"
    /\ \E missingIds \in {MissingIds(dependencies, components)} :
          /\ repairMissing' = missingIds
          /\ IF missingIds = <<>>
             THEN /\ repairPc' = "done"
                  /\ repairChunks' = <<>>
                  /\ lastOp' = [Op("repair") EXCEPT !.said = "consistent"]
             ELSE /\ repairPc' = "loop"
                  /\ repairChunks' = Chunks(missingIds)
                  /\ UNCHANGED lastOp
    /\ UNCHANGED <<repairCalls, repairFound>>
    /\ UNCHANGED <<components, dependencies, firstWritten, foreignKeys>>

\* the loop takes the next chunk and calls fetchDependenciesByIds with it
RepairCall ==
    /\ repairPc = "loop"
    /\ Len(repairCalls) < Len(repairChunks)
    /\ repairCalls' = Append(repairCalls, "inflight")
    /\ repairPc' = AwaitCall(repairPc)
    /\ UNCHANGED <<repairMissing, repairChunks, repairFound>>
    /\ UNCHANGED svars

\* the org answers call k: a throw goes to the catch, a result runs the
\* forEach callback and the loop goes on
RepairAnswer(k, kind) ==
    /\ repairPc \in {"loop", "await"}
    /\ k \in CallsInFlight
    /\ \E resp \in {AnswerTo(repairChunks[k], kind)} :
          IF resp.threw
          THEN /\ repairCalls' = [repairCalls EXCEPT ![k] = "threw"]
               /\ repairPc' = "failed"
               /\ lastOp' = [Op("repair") EXCEPT !.missing = SeqToSet(repairMissing),
                                                 !.threw = TRUE,
                                                 !.cause = "remote",
                                                 !.calls = Len(repairCalls),
                                                 !.said = "failed"]
               /\ UNCHANGED repairFound
          ELSE /\ repairCalls' = [repairCalls EXCEPT ![k] = "returned"]
               /\ repairPc' = "loop"
               /\ repairFound' = FoundComponents(repairFound, resp.records)
               /\ UNCHANGED lastOp
    /\ UNCHANGED <<repairMissing, repairChunks>>
    /\ UNCHANGED <<components, dependencies, firstWritten, foreignKeys>>

\* after the loop: the filter, the insert and the last console line
RepairEnd ==
    /\ repairPc = "loop"
    /\ Len(repairCalls) = Len(repairChunks)
    /\ repairPc' = "done"
    /\ \E actuallyMissing \in {ActuallyMissing(repairFound, repairMissing)} :
          /\ lastOp' = [Op("repair") EXCEPT
                           !.missing = SeqToSet(repairMissing),
                           !.calls = Len(repairCalls),
                           !.restoring = Len(actuallyMissing),
                           !.said = IF actuallyMissing # <<>> THEN "complete"
                                    ELSE "unresolved"]
          /\ IF actuallyMissing # <<>>
             THEN /\ components' = insertComponents(components, actuallyMissing)
                  /\ firstWritten' = NoteFirst(firstWritten, actuallyMissing)
             ELSE UNCHANGED <<components, firstWritten>>
    /\ UNCHANGED <<dependencies, foreignKeys>>
    /\ UNCHANGED <<repairMissing, repairChunks, repairCalls, repairFound>>

RepairStepsInit ==
    /\ RepairInit
    /\ repairPc = "start"
    /\ repairMissing = <<>>
    /\ repairChunks = <<>>
    /\ repairCalls = <<>>
    /\ repairFound = <<>>

RepairStepsNext ==
    \/ RepairBegin /\ UNCHANGED <<hvars, yvars, qvars, wvars, avars, pvars, cvars>>
    \/ RepairCall /\ UNCHANGED <<hvars, yvars, qvars, wvars, avars, pvars, cvars>>
    \/ /\ \E k \in DOMAIN repairCalls, kind \in AnswerKinds : RepairAnswer(k, kind)
       /\ UNCHANGED <<hvars, yvars, qvars, wvars, avars, pvars, cvars>>
    \/ RepairEnd /\ UNCHANGED <<hvars, yvars, qvars, wvars, avars, pvars, cvars>>

RepairStepsSpecInit ==
    /\ HarvestInit /\ RepairStepsInit /\ SyncIdle /\ SearchIdle
    /\ ServeIdle /\ ApexIdle /\ PathIdle /\ ClientInit

SpecRepairSteps == RepairStepsSpecInit /\ [][RepairStepsNext]_vars

StoreSpecInit == HarvestInit /\ StoreInit /\ SyncIdle /\ SearchIdle /\ OthersIdle

\* the record lists insertDependencies is called with
DependencyBatches == SeqsUpTo(RemoteDependencyRows, MaxBatch)

\* insertDependencies(deps) of db.ts: the endpoints of the records are
\* collected in a Map keyed by id and upserted, then the edges are inserted;
\* the names of the inputs are non-empty, so the || fallback of the target
\* name is never taken
InsertDependencies(deps) ==
    \E comps \in {FoundComponents(<<>>, deps)} :
    \E rows \in {insertComponents(components, comps)},
       written \in {insertDependencyEdges(dependencies, EdgesOf(deps))} :
        /\ Len(written) <= MaxEdges
        /\ components' = Transaction(components, rows, FALSE)
        /\ dependencies' = Transaction(dependencies, written, FALSE)
        /\ firstWritten' = NoteFirst(firstWritten, comps)
        /\ lastOp' = [Op("insertDependencies") EXCEPT
                        !.named = LastNamed(deps),
                        !.created = {rows[k].id : k \in DOMAIN rows}
                                    \ {components[k].id : k \in DOMAIN components}]
        /\ UNCHANGED foreignKeys

\* the store under the operations that create rows for edge endpoints
EndpointsNext ==
    \/ /\ \E comps \in ComponentBatches : InsertComponents(comps, 0)
       /\ UNCHANGED <<hvars, yvars, qvars, wvars, avars, pvars, rvars, cvars>>
    \/ /\ \E edges \in EdgeBatches : InsertDependencyEdges(edges, 0)
       /\ UNCHANGED <<hvars, yvars, qvars, wvars, avars, pvars, rvars, cvars>>
    \/ /\ \E deps \in DependencyBatches : InsertDependencies(deps)
       /\ UNCHANGED <<hvars, yvars, qvars, wvars, avars, pvars, rvars, cvars>>
    \/ /\ ClearDependencies
       /\ UNCHANGED <<hvars, yvars, qvars, wvars, avars, pvars, rvars, cvars>>
    \/ /\ \E resps \in RepairAnswers : Repair(resps, 0)
       /\ UNCHANGED <<hvars, yvars, qvars, wvars, avars, pvars, rvars, cvars>>

SpecEndpoints == StoreSpecInit /\ [][EndpointsNext]_vars

SpecStore == StoreSpecInit /\ [][StoreNext]_vars

SpecStoreFault == StoreSpecInit /\ [][StoreFaultNext]_vars

SyncSpecInit == HarvestInit /\ StoreInit /\ SyncInit /\ SearchIdle /\ OthersIdle

SpecSync == SyncSpecInit /\ [][SyncNext]_vars

SpecResync == SyncSpecInit /\ [][ResyncNext]_vars

HarvestSpecInit == HarvestInit /\ StoreClosed /\ SyncIdle /\ SearchIdle /\ OthersIdle

SpecHarvest == HarvestSpecInit /\ [][HarvestNext]_vars

\* Every remote call eventually returns or fails, and the event loop runs
\* every callback that is ready.
SpecHarvestFair ==
    /\ SpecHarvest
    /\ WF_vars(StartFetch)
    /\ WF_vars(LoopEnd)
    /\ WF_vars(Join)
    /\ \A i \in 1..Len(Filter(FullTypeList)) : WF_vars(CompleteSome(i))

\* Every remote call but the first type's eventually returns or fails; the
\* first type's call may stay pending for ever (exec is given no timeout).
SpecHarvestStuck ==
    /\ SpecHarvest
    /\ WF_vars(StartFetch)
    /\ WF_vars(LoopEnd)
    /\ WF_vars(Join)
    /\ \A i \in 1..Len(Filter(FullTypeList)) : i > 1 => WF_vars(CompleteSome(i))

(***************************************************************************)
(* Harvester claims.                                                       *)
(***************************************************************************)
InFlight == {i \in DOMAIN task : task[i] = "inflight"}
Done == {i \in DOMAIN task : task[i] = "done"}
Started == {i \in DOMAIN task : fetchCount[i] > 0}

\* C1: at every moment of a batch call the number of per-type remote
\* fetches started and not yet completed is at most the concurrency limit
\* (10 for fetchAllMetadata, 5 for fetchAllDependencies).
C1_InFlightWithinLimit ==
    harvest # "none" => Cardinality(InFlight) <= CONCURRENCY_LIMIT(harvest)

\* the limit binds: ten inventory fetches in flight and types still waiting
C1_Witness ==
    /\ harvest = "fetchAllMetadata"
    /\ Cardinality(InFlight) = CONCURRENCY_LIMIT_METADATA
    /\ idx < Len(validTypes)
    /\ pc = "race"

\* C2: the batch call returns only after every per-type fetch it started has
\* completed, and every type that passed the filter is fetched exactly once.
C2_JoinBarrier ==
    /\ \A i \in DOMAIN task : fetchCount[i] <= 1
    /\ pc = "done" => /\ DOMAIN task = 1..Len(validTypes)
                      /\ \A i \in DOMAIN task : task[i] = "done" /\ fetchCount[i] = 1

C2_Witness ==
    /\ pc = "done"
    /\ Len(validTypes) > CONCURRENCY_LIMIT(harvest)
    /\ failedTypes # {}

\* the records the org holds for the i-th filtered type, as the batch call
\* is to deliver them
TypeRecords(i) ==
    IF harvest = "fetchAllMetadata" THEN RemoteInventory(validTypes[i].xmlName).items
    ELSE RemoteDependencies(validTypes[i].xmlName).items

RECURSIVE UnionOfTypes(_)
UnionOfTypes(S) ==
    IF S = {} THEN EmptyBag
    ELSE LET i == CHOOSE j \in S : TRUE
         IN  SeqToBag(TypeRecords(i)) (+) UnionOfTypes(S \ {i})

\* C3: whatever subset F of the per-type fetches fails, the batch call
\* resolves (it rejects only when the discovery call threw) and returns
\* exactly the records of the types not in F.
C3_PartialFailureTolerance ==
    /\ pc \in {"threw", "exited"} => discovery \in {"cmdError", "badJson"}
    /\ pc = "done" => allRecords = UnionOfTypes((1..Len(validTypes)) \ failedTypes)

C3_Witness ==
    /\ pc = "done"
    /\ harvest = "fetchAllMetadata"
    /\ failedTypes # {}
    /\ allRecords # EmptyBag
    /\ \E i \in failedTypes : TypeRecords(i) # <<>>

\* C4: completed is the number of per-type tasks that have finished, whatever
\* their outcome: it starts at 0, moves only by +1, never exceeds the number
\* of filtered types and equals it at the return; results holds exactly the
\* non-empty arrays of the finished successful tasks.
C4_CounterInv ==
    /\ completed = Cardinality(Done)
    /\ completed <= Len(validTypes)
    /\ pc = "done" => completed = Len(validTypes)
    /\ results = [a \in {TypeRecords(i) : i \in {j \in Done \ failedTypes : TypeRecords(j) # <<>>}} |-> 1]

C4_ProgressCounter ==
    /\ []C4_CounterInv
    /\ [][completed' = completed \/ (completed' = completed + 1 /\ Cardinality(Done') = Cardinality(Done) + 1)]_vars

C4_Witness ==
    /\ pc = "done"
    /\ completed = Len(validTypes)
    /\ completed > CONCURRENCY_LIMIT(harvest)
    /\ failedTypes # {}
    /\ \E i \in Done \ failedTypes : TypeRecords(i) = <<>>

\* C5: with more types than the limit and every remote call eventually
\* returning, every per-type fetch is eventually started and completed, the
\* batch call returns and its result holds every successful type's records.
C5_HarvestLiveness ==
    (pc = "loop" /\ idx = 0) ~>
        (/\ pc = "done"
         /\ Done = 1..Len(validTypes)
         /\ allRecords = UnionOfTypes((1..Len(validTypes)) \ failedTypes))

C5_Witness ==
    /\ pc = "done"
    /\ harvest = "fetchAllDependencies"
    /\ Len(validTypes) > 2 * CONCURRENCY_LIMIT_DEPENDENCIES
    /\ Done = 1..Len(validTypes)
    /\ allRecords # EmptyBag

\* C6: whenever the discovery call obtains no type list (command failure,
\* unparsable output, non-success status) the sync aborts with exit status 1
\* and never goes on to the harvest.
C6_DiscoveryFailureIsFatal ==
    discovery \in {"cmdError", "badJson", "badStatus"} => pc \in {"threw", "exited"}

\* the claim's own reading of the filter
NameEndsIn(name, sfx) == \E k \in 0..Len(name) : name = SubSeq(name, 1, k) \o sfx

Wanted(name) ==
    /\ name \notin { <<"U","s","e","r">>, <<"G","r","o","u","p">>,
                     <<"O","r","g","a","n","i","z","a","t","i","o","n">>,
                     <<"D","a","t","a","T","y","p","e">>,
                     <<"E","n","t","i","t","y","D","e","f","i","n","i","t","i","o","n">> }
    /\ ~ NameEndsIn(name, <<"H","i","s","t","o","r","y">>)
    /\ ~ NameEndsIn(name, <<"S","h","a","r","e">>)
    /\ ~ NameEndsIn(name, <<"F","e","e","d">>)

\* C7: the types harvested are exactly the discovered types whose name is
\* not blocked and does not end in History, Share or Feed.
C7_HarvestedTypes ==
    /\ \A i \in Started : Wanted(validTypes[i].xmlName)
    /\ pc = "done" =>
         {validTypes[i].xmlName : i \in Started}
            = {types[k].xmlName : k \in {j \in DOMAIN types : Wanted(types[j].xmlName)}}

C7_Witness ==
    /\ pc = "done"
    /\ Len(types) = Len(FullTypeList)
    /\ \E k \in DOMAIN types : ~Wanted(types[k].xmlName)
    /\ Started # {}

(***************************************************************************)
(* Store claims.                                                           *)
(***************************************************************************)
RowsOf(id) == {k \in DOMAIN components : components[k].id = id}

\* C8: since the last clear, the stored name and type of an id are those of
\* the first record with that id that was written; later records with the
\* same id change nothing.
C8_FirstWriterWins ==
    /\ \A id \in DOMAIN firstWritten :
         /\ RowsOf(id) # {}
         /\ \A k \in RowsOf(id) : /\ components[k].name = firstWritten[id].name
                                  /\ components[k].type = firstWritten[id].type
    /\ \A k \in DOMAIN components : components[k].id \in DOMAIN firstWritten

\* a later record for id a with another name was written and ignored
C8_Witness ==
    /\ lastOp.op = "insertComponents"
    /\ "a" \in lastOp.ignored
    /\ RowsOf("a") # {}

\* C9: the components table holds at most one row per id and no row with
\* an empty id.
C9_OneRowPerId ==
    /\ \A j, k \in DOMAIN components : components[j].id = components[k].id => j = k
    /\ \A k \in DOMAIN components : components[k].id # ""

\* a batch held a record with an empty id and a record whose id has a row
C9_Witness ==
    /\ lastOp.op = "insertComponents"
    /\ Len(components) = 2
    /\ "" \in lastOp.ignored
    /\ \E id \in lastOp.ignored : RowsOf(id) # {}
    /\ dependencies # <<>>

\* one updateComponentStats call with the single record item
StatsOnce(rows, item) == updateComponentStats(rows, <<item>>)

\* C10: on an existing id, size and coverage are each overwritten exactly
\* when the incoming value is non-null; (size=10, coverage=null) followed
\* by (size=null, coverage=80) leaves size=10 and coverage=80; two updates
\* with disjoint non-null fields commute.
C10_CoalesceLaw ==
    /\ \A item \in StatRecords :
         LET after == StatsOnce(components, item) IN
         /\ Len(after) = Len(components)
         /\ \A k \in RowsOf(item.id) :
              /\ after[k].size = IF item.size = Null THEN components[k].size ELSE item.size
              /\ after[k].coverage =
                    IF item.coverage = Null THEN components[k].coverage ELSE item.coverage
    /\ LET after == StatsOnce(StatsOnce(components,
                                 [id |-> "a", size |-> Some(10), coverage |-> Null]),
                              [id |-> "a", size |-> Null, coverage |-> Some(80)])
       IN  \A k \in RowsOf("a") : after[k].size = Some(10) /\ after[k].coverage = Some(80)
    /\ \A s1, s2 \in StatRecords :
         (/\ s1.id = s2.id
          /\ s1.size = Null \/ s2.size = Null
          /\ s1.coverage = Null \/ s2.coverage = Null)
         => StatsOnce(StatsOnce(components, s1), s2) = StatsOnce(StatsOnce(components, s2), s1)
    /\ lastOp.op = "updateComponentStats" =>
         \A w \in lastOp.applied : \A k \in RowsOf(w[1]) :
            /\ w[2] = "size" => components[k].size # Null
            /\ w[2] = "coverage" => components[k].coverage # Null

\* the last call applied only (size=null, coverage=80) to row a, whose
\* size 10 comes from an earlier call
C10_Witness ==
    /\ lastOp.op = "updateComponentStats"
    /\ lastOp.applied = {<<"a", "coverage">>}
    /\ \E k \in RowsOf("a") :
         components[k].size = Some(10) /\ components[k].coverage = Some(80)

\* C11: updateComponentStats never creates a node and never changes name
\* or type: a record whose id has no row leaves the store unchanged, and
\* for an id that has a row only size and coverage of that row may change.
C11_StatsFrame ==
    [][lastOp'.op = "updateComponentStats" =>
         /\ Len(components') = Len(components)
         /\ dependencies' = dependencies
         /\ \A k \in DOMAIN components :
              /\ components'[k].id = components[k].id
              /\ components'[k].name = components[k].name
              /\ components'[k].type = components[k].type
              /\ (\A w \in lastOp'.applied : w[1] # components[k].id)
                    => components'[k] = components[k]
         /\ lastOp'.applied = {} => components' = components]_vars

\* a stats record for id a was written to a store that holds a row for b
\* and none for a
C11_Witness ==
    /\ lastOp.op = "updateComponentStats"
    /\ "a" \in lastOp.missed
    /\ RowsOf("b") # {}
    /\ RowsOf("a") = {}

\* C12: each ordered pair (sourceId, targetId) is stored at most once in
\* metadata_dependencies, however often it was inserted.
C12_EdgeStoredOnce ==
    \A j, k \in DOMAIN dependencies :
       (/\ dependencies[j].sourceId = dependencies[k].sourceId
        /\ dependencies[j].targetId = dependencies[k].targetId) => j = k

\* C13: a second run of sync against the same org leaves the node set and
\* the edge set the first run left, and no ordered pair stored twice.
C13_SyncIdempotent ==
    (syncRun = 2 /\ syncPc = "done") =>
        /\ NodeIds(components) = firstRun.nodes
        /\ EdgePairs(dependencies) = firstRun.edges
        /\ C12_EdgeStoredOnce

\* the second run has ended on a store that holds two edges, a component
\* known from a dependency row only and one stored under its fileName
C13_Witness ==
    /\ syncRun = 2
    /\ syncPc = "done"
    /\ Len(dependencies) = 2
    /\ "c" \in NodeIds(components)
    /\ "f3" \in NodeIds(components)

WriteOps == {"insertComponents", "updateComponentStats", "insertDependencyEdges"}

\* C14: a store write that fails on any row of its batch leaves both
\* tables as they were before the call.
C14_WriteAtomic ==
    [][(lastOp'.op \in WriteOps /\ lastOp'.threw) =>
          /\ components' = components
          /\ dependencies' = dependencies]_vars

\* a write failed after rows of its batch had been written
C14_Witness ==
    /\ lastOp.op \in WriteOps
    /\ lastOp.threw
    /\ lastOp.rolledBack

\* str contains term as a literal substring, compared without regard to
\* the case of ASCII letters
ContainsTerm(str, term) ==
    \E i \in 0..(Len(str) - Len(term)) :
       \A j \in 1..Len(term) : Fold(str[i + j]) = Fold(term[j])

RowMatches(row, term) == ContainsTerm(row.name, term) \/ ContainsTerm(row.id, term)

\* C15: every row searchComponents returns contains the term in its name
\* or its id, as a literal substring compared case-insensitively.
C15_SearchLiteralSubstring ==
    searchTerm # Null =>
       \A k \in DOMAIN searchResult : RowMatches(searchResult[k], searchTerm[1])

\* C16: searchComponents returns at most 50 rows, and when at most 50 rows
\* contain the term it returns all of them.
C16_SearchBound ==
    searchTerm # Null =>
       /\ Len(searchResult) <= SEARCH_LIMIT
       /\ LET matching == {k \in DOMAIN searchTable :
                              RowMatches(searchTable[k], searchTerm[1])}
          IN  Cardinality(matching) <= SEARCH_LIMIT =>
                 \A k \in matching :
                    \E j \in DOMAIN searchResult : searchResult[j] = searchTable[k]

\* C17: getDependenciesForComponent(id) returns every stored edge whose
\* sourceId or targetId is id, and only those, also when an endpoint of
\* the edge has no row in metadata_components.
C17_EdgesTouching ==
    \A id \in QueryIds :
       LET result == getDependenciesForComponent(dependencies, components, id)
       IN  {result[n].dependencyId : n \in DOMAIN result}
             = {d \in DOMAIN dependencies :
                  dependencies[d].sourceId = id \/ dependencies[d].targetId = id}

\* the ids that occur as an endpoint of a stored edge and have no row
Dangling(deps, rows) ==
    {id \in UNION {{deps[d].sourceId, deps[d].targetId} : d \in DOMAIN deps} :
        ~\E k \in DOMAIN rows : rows[k].id = id}

\* C18: the dangling-id set repair computes is exactly the set of ids that
\* are an endpoint of a stored edge and have no components row, each once.
C18_DanglingSet ==
    /\ [](LET missingIds == MissingIds(dependencies, components)
          IN  /\ SeqToSet(missingIds) = Dangling(dependencies, components)
              /\ Cardinality(SeqToSet(missingIds)) = Len(missingIds))
    /\ [][lastOp'.op = "repair" =>
             lastOp'.missing = Dangling(dependencies, components)]_vars

\* repair ran on a store where a is missing as a source and b both as a
\* source and as a target
C18_Witness ==
    /\ lastOp.op = "repair"
    /\ lastOp.missing = {"a", "b"}
    /\ \E d \in DOMAIN dependencies :
          dependencies[d].sourceId = "b" /\ dependencies[d].targetId = "b"

\* C19: when the remote names every dangling id in its answers and repair
\* returns, no id is dangling afterwards and every id that was dangling
\* has a components row.
C19_RepairComplete ==
    [][(/\ lastOp'.op = "repair"
        /\ ~lastOp'.threw
        /\ lastOp'.missing \subseteq lastOp'.resolved) =>
          /\ Dangling(dependencies', components') = {}
          /\ lastOp'.missing \subseteq NodeIds(components')]_vars

\* nodes {a}, edge (a,b): b was dangling, the remote named it, and repair
\* gave it a row
C19_Witness ==
    /\ lastOp.op = "repair"
    /\ ~lastOp.threw
    /\ lastOp.missing = {"b"}
    /\ "b" \in lastOp.resolved
    /\ NodeIds(components) = {"a", "b"}
    /\ Dangling(dependencies, components) = {}

\* C20: a dangling id the remote's answers do not name is no error: repair
\* fails only when a remote call or a write fails, the id gets no row and
\* it is still dangling afterwards.
C20_RepairResidual ==
    [][lastOp'.op = "repair" =>
          /\ lastOp'.threw => lastOp'.cause # "none"
          /\ \A id \in lastOp'.missing \ lastOp'.resolved :
                /\ id \notin NodeIds(components')
                /\ id \in Dangling(dependencies', components')]_vars

\* repair returned normally although the remote named none of the ids
\* that were dangling
C20_Witness ==
    /\ lastOp.op = "repair"
    /\ ~lastOp.threw
    /\ lastOp.missing # {}
    /\ lastOp.missing \cap lastOp.resolved = {}
    /\ Dangling(dependencies, components) = lastOp.missing

\* C21: a repair run that found dangling ids and leaves one of them
\* unresolved does not end in plain success: its last line is not
\* "Repair complete" (it reports the unresolved remainder).
C21_RepairReportsRemainder ==
    [][(/\ lastOp'.op = "repair"
        /\ lastOp'.missing # {}
        /\ ~lastOp'.threw
        /\ lastOp'.missing \cap Dangling(dependencies', components') # {}) =>
          lastOp'.said # "complete"]_vars

\* C22: when the call for chunk k fails, repair fails after exactly k
\* calls, and every dangling id named by the answers to chunks 1..k-1 has
\* a components row afterwards.
C22_RepairKeepsEarlierBatches ==
    [][(lastOp'.op = "repair" /\ lastOp'.failed # 0) =>
          /\ lastOp'.threw
          /\ lastOp'.calls = lastOp'.failed
          /\ (lastOp'.early \cap lastOp'.missing) \subseteq NodeIds(components')]_vars

\* C26: a repair run on a store without dangling ids makes no remote call
\* and leaves both tables as they are.
C26_RepairNoOp ==
    [][(lastOp'.op = "repair" /\ Dangling(dependencies, components) = {}) =>
          /\ lastOp'.calls = 0
          /\ components' = components
          /\ dependencies' = dependencies]_vars

\* repair ran on a store that holds edges whose endpoints all have a row,
\* some of them restored by an earlier run, and made no call
C26_Witness ==
    /\ lastOp.op = "repair"
    /\ lastOp.said = "consistent"
    /\ lastOp.calls = 0
    /\ Len(dependencies) > BATCH_SIZE
    /\ Len(components) > BATCH_SIZE
    /\ Dangling(dependencies, components) = {}

\* C23: a request answered from the org (a target org is set and source
\* is not local) leaves the components and the edge table as they were,
\* whether the remote call succeeded or failed.
C23_LiveLookupFrame ==
    [][(request' # Null /\ request'[1].live) =>
          /\ components' = components
          /\ dependencies' = dependencies]_vars

\* a live request for a was answered with the org's two rows, on a server
\* whose store holds rows
C23_Witness ==
    /\ request # Null
    /\ request[1].live
    /\ request[1].id = "a"
    /\ response[1].status = 200
    /\ Len(response[1].body) = 2
    /\ Len(components) = 2
    /\ Len(dependencies) = 1

\* C24: a live request whose remote call fails (command failure, invalid
\* JSON, non-success status) is answered with an error response, the server
\* stays up, and every request, earlier failures or not, whose remote call
\* succeeds or that is answered locally gets a normal response.
C24_LiveFailureRecoverable ==
    /\ []serverUp
    /\ [][request' # Null =>
            LET q == request'[1]
                r == response'[1]
            IN  /\ (q.live /\ IsFailure(q.answer[1])) =>
                      (r.status = 500 /\ r.error # "")
                /\ (q.live /\ q.answer[1].status = 0 /\ q.answer[1].hasRecords) =>
                      (r.status = 200 /\ Len(r.body) = Len(q.answer[1].records))
                /\ ~q.live => r.status = 200]_vars

\* after a request whose remote call failed, a live request was answered
\* normally
C24_Witness ==
    /\ liveFailed
    /\ serverUp
    /\ request[1].live
    /\ ~IsFailure(request[1].answer[1])
    /\ response[1].status = 200
    /\ response[1].body # <<>>

\* the non-empty keys of the inventory records: a record's id, or its
\* fileName when it has no id
InventoryKeys(meta) ==
    {IF m.id # "" THEN m.id ELSE m.fileName : m \in meta} \ {""}

\* the non-empty endpoint ids the harvested dependency records name
HarvestedEndpoints(deps) ==
    UNION {{d.MetadataComponentId, d.RefMetadataComponentId} : d \in deps} \ {""}

\* the harvested pairs with both ids non-empty
HarvestedPairs(deps) ==
    {<<d.MetadataComponentId, d.RefMetadataComponentId>> :
        d \in {e \in deps : e.MetadataComponentId # "" /\ e.RefMetadataComponentId # ""}}

RowsOfQuery(resp) == IF IsFailure(resp) THEN <<>> ELSE resp.records

\* the three queries each failed or answered with records
Answered(in) ==
    \A resp \in {in.classes, in.triggers, in.coverage} :
        IsFailure(resp) \/ (resp.hasResult /\ resp.hasRecords)

\* the output records for an id
StatsFor(out, id) == {k \in DOMAIN out : out[k].id = id}

\* C27: for every coverage row with an id, the output record of the id has
\* coverage round(covered / (covered + uncovered) * 100), within 0..100,
\* when covered + uncovered > 0, and no coverage when it is 0.
C27_CoveragePercent ==
    (apexOut # Null /\ ~apexOut[1].threw) =>
        LET rows == RowsOfQuery(apexIn.coverage)
        IN  \A n \in DOMAIN rows :
              LET covered == OrZero(rows[n].NumLinesCovered)
                  total == covered + OrZero(rows[n].NumLinesUncovered)
              IN  rows[n].ApexClassOrTriggerId # "" =>
                    \A k \in StatsFor(apexOut[1].value, rows[n].ApexClassOrTriggerId) :
                       LET cov == apexOut[1].value[k].coverage
                       IN  IF total > 0
                           THEN /\ cov # Null
                                /\ cov[1] \in 0..100
                                /\ 2 * total * cov[1] - total <= 200 * covered
                                /\ 200 * covered < 2 * total * cov[1] + total
                           ELSE cov = Null

DocumentedDb(X) ==
    <<"d","e","p","e","n","d","e","n","c","i","e","s","_">>
       \o [k \in DOMAIN X |-> IF X[k] \in AllowedChars THEN X[k] ELSE "_"]
       \o <<".","d","b">>

\* C29 as stated: the commands that ran with -o X worked on one file,
\* the override when DATABASE_PATH is set and dependencies_<X sanitized>.db
\* when it is not.
C29_SameDatabaseFile ==
    \A cmd \in DOMAIN cliPaths :
        cliPaths[cmd] = IF cliDb # Null THEN cliDb[1] ELSE DocumentedDb(cliOrg[1])

\* C29, amended: the commands that ran with -o X worked on one file; for a
\* non-empty X it is the override when DATABASE_PATH is set to a non-empty
\* path and dependencies_<X sanitized>.db when DATABASE_PATH is unset or
\* empty.
C29_SameDatabaseFileNonEmpty ==
    /\ \A c1 \in DOMAIN cliPaths, c2 \in DOMAIN cliPaths : cliPaths[c1] = cliPaths[c2]
    /\ (cliOrg # Null /\ cliOrg[1] # <<>>) =>
          \A cmd \in DOMAIN cliPaths :
              cliPaths[cmd] = IF cliDb # Null /\ cliDb[1] # <<>> THEN cliDb[1]
                              ELSE DocumentedDb(cliOrg[1])

\* clean, sync and serve ran for an org name with a character outside the
\* class, without an override
C29_Witness ==
    /\ DOMAIN cliPaths = Commands
    /\ cliOrg = Some(<<"a", " ">>)
    /\ cliDb = Null
    /\ cliPaths["sync"] = <<"d","e","p","e","n","d","e","n","c","i","e","s","_",
                            "a","_",".","d","b">>

\* C30: the harvester waits only while every slot is taken; the
\* completion of any one in-flight fetch ends the wait, whatever the other
\* fetches in flight do, and from there the next step is the start of the
\* next unstarted type, if one remains.
C30_SlotReuse ==
    /\ [](pc = "race" => Cardinality(InFlight) = CONCURRENCY_LIMIT(harvest))
    /\ [][(pc = "race" /\ \E i \in InFlight : task'[i] = "done") => pc' = "loop"]_vars
    /\ [][(pc = "loop" /\ idx < Len(validTypes)) =>
             /\ idx' = idx + 1
             /\ task'[idx'] = "inflight"
             /\ \A i \in InFlight : task'[i] = "inflight"]_vars

\* a dependency fetch has completed while the other four were in flight
\* and types were waiting: the loop runs again, about to start the next
C30_Witness ==
    /\ harvest = "fetchAllDependencies"
    /\ pc = "loop"
    /\ idx < Len(validTypes)
    /\ Cardinality(Done) = 1
    /\ Cardinality(InFlight) = CONCURRENCY_LIMIT_DEPENDENCIES - 1

\* C31: when the remote call of one type never returns while every other
\* call returns, the batch call still returns eventually.
C31_StuckCallTimesOut ==
    (pc = "loop" /\ idx = 0) ~> (pc \in {"done", "threw"})

\* the ids of the chunks, chunk after chunk
RECURSIVE ChunkIds(_)
ChunkIds(chunks) == IF chunks = <<>> THEN <<>> ELSE Head(chunks) \o ChunkIds(Tail(chunks))

\* C32: repair makes its by-id calls one at a time: at most one is in
\* flight, a call is issued only after all calls before it returned, no
\* chunk holds more than BATCH_SIZE ids and every dangling id is in exactly
\* one chunk, which hold nothing else.
C32_RepairSequentialBatches ==
    /\ Cardinality(CallsInFlight) <= 1
    /\ \A k \in DOMAIN repairCalls : k < Len(repairCalls) => repairCalls[k] = "returned"
    /\ \A n \in DOMAIN repairChunks : Len(repairChunks[n]) \in 1..BATCH_SIZE
    /\ repairPc \in {"loop", "await"} =>
          /\ SeqToSet(ChunkIds(repairChunks)) = Dangling(dependencies, components)
          /\ Len(ChunkIds(repairChunks)) = Cardinality(Dangling(dependencies, components))

\* the third call, for the one id left over by two full chunks, is in
\* flight after the first two returned
C32_Witness ==
    /\ repairPc = "await"
    /\ Len(repairChunks) = 3
    /\ Len(repairChunks[3]) < BATCH_SIZE
    /\ repairCalls = <<"returned", "returned", "inflight">>

\* C33: a repair run leaves every edge and every row it found as they
\* were, and every row it adds has an id that was dangling when it started.
C33_RepairFrame ==
    [][lastOp'.op = "repair" =>
          /\ dependencies' = dependencies
          /\ Len(components') >= Len(components)
          /\ \A k \in DOMAIN components : components'[k] = components[k]
          /\ \A k \in DOMAIN components' :
                k > Len(components) =>
                   components'[k].id \in Dangling(dependencies, components)]_vars

\* repair gave the dangling b its row although the answers also named a,
\* which no edge left dangling and which has no row
C33_Witness ==
    /\ lastOp.op = "repair"
    /\ ~lastOp.threw
    /\ lastOp.missing = {"b"}
    /\ lastOp.resolved = {"a", "b"}
    /\ NodeIds(components) = {"b"}

\* C34: only clearDependencies removes a node: every other store
\* operation (insertComponents, updateComponentStats, insertDependencyEdges,
\* repair) leaves every node id that was stored in the store.
C34_NodesOnlyGrow ==
    [][lastOp'.op # "clearDependencies" =>
          NodeIds(components) \subseteq NodeIds(components')]_vars

\* an insertComponents call met the id of a stored row and the rows of
\* both ids are there afterwards
C34_Witness ==
    /\ lastOp.op = "insertComponents"
    /\ lastOp.ignored # {}
    /\ NodeIds(components) = {"a", "b"}
    /\ dependencies # <<>>

\* C35: when a sync has completed, every sourceId and every targetId of a
\* stored edge has a row in the components table.
C35_SyncReferentiallyConsistent ==
    syncPc = "done" => Dangling(dependencies, components) = {}

\* a sync completed on an org that lists no component and reports the
\* dependencies a -> b and b -> c: the three rows come from the edge records
C35_Witness ==
    /\ syncPc = "done"
    /\ remote.meta = {}
    /\ EdgePairs(dependencies) = {<<"a", "b">>, <<"b", "c">>}
    /\ NodeIds(components) = {"a", "b", "c"}

\* C36: a sync run, with --clean or without, has emptied both tables when
\* it makes its first remote call; from then on, however the run ends, the
\* store holds no node and no edge that the org does not report now.
C36_SyncEmptiesFirst ==
    /\ syncPc = "components" => components = <<>> /\ dependencies = <<>>
    /\ syncPc \in {"components", "stats", "extras", "edges", "done", "failed"} =>
          /\ NodeIds(components) \subseteq
                InventoryKeys(remote.meta) \cup HarvestedEndpoints(remote.deps)
          /\ EdgePairs(dependencies) \subseteq HarvestedPairs(remote.deps)

\* the second run, made after the org dropped something, aborted on its
\* first remote call: the rows and edges of the first run are gone
C36_Witness ==
    /\ syncRun = 2
    /\ syncPc = "failed"
    /\ firstRun.nodes # {}
    /\ firstRun.edges # {}
    /\ components = <<>>
    /\ dependencies = <<>>

\* C37: sync writes in the order inventory nodes, stats, edge-endpoint
\* nodes, edges, each write on its own; when a remote call fails the
\* command aborts and the writes made before stay: after a failure of the
\* edge harvest the store holds the inventory nodes with their stats and no
\* edge.
C37_SyncNotAtomic ==
    /\ [][/\ syncPc' = "stats" => syncPc = "components" /\ lastOp'.op = "insertComponents"
          /\ syncPc' = "extras" => syncPc = "stats" /\ lastOp'.op = "updateComponentStats"
          /\ syncPc' = "edges" =>
                /\ syncPc = "extras"
                /\ lastOp' # lastOp => lastOp'.op = "insertComponents"
                /\ dependencies' = <<>>
          /\ syncPc' = "done" => syncPc = "edges" /\ lastOp'.op = "insertDependencyEdges"
          /\ syncPc' = "failed" /\ syncPc # "edges" =>
                components' = components /\ dependencies' = dependencies]_vars
    /\ [](syncPc = "failed" /\ lastOp.op = "updateComponentStats" =>
             /\ NodeIds(components) = InventoryKeys(remote.meta)
             /\ \A m \in DOMAIN remote.stats :
                   \A k \in DOMAIN components :
                      components[k].id = remote.stats[m].id =>
                         components[k].size = remote.stats[m].size
             /\ dependencies = <<>>)

\* the edge harvest failed on an org that reports dependencies: the sync
\* has aborted, the inventory rows and the size of a are stored, no edge is
C37_Witness ==
    /\ syncPc = "failed"
    /\ lastOp.op = "updateComponentStats"
    /\ remote.deps # {}
    /\ \E k \in DOMAIN components : components[k].id = "a" /\ components[k].size = Some(10)
    /\ Len(components) >= 2
    /\ dependencies = <<>>

\* C38: after a sync, a row whose id is the key of no inventory record (the
\* edge-endpoint insert created it) has neither size nor coverage, whether
\* or not the stats of that sync hold a record for its id.
C38_EndpointRowsHaveNoStats ==
    syncPc = "done" =>
        \A k \in DOMAIN components :
            components[k].id \notin InventoryKeys(remote.meta) =>
                components[k].size = Null /\ components[k].coverage = Null

\* a sync completed on an org whose inventory does not list a while its
\* stats and its dependency rows name it: the row of a has no stats
C38_Witness ==
    /\ syncPc = "done"
    /\ "a" \notin InventoryKeys(remote.meta)
    /\ \E m \in DOMAIN remote.stats : remote.stats[m].id = "a" /\ remote.stats[m].size # Null
    /\ \E k \in DOMAIN components :
          /\ components[k].id = "a"
          /\ components[k].size = Null
          /\ components[k].coverage = Null

\* C39: a row that insertDependencies or repair creates carries the name
\* and the type of the last mention of its id among the records received
C39_LastMentionNames ==
    [][(lastOp'.op \in {"insertDependencies", "repair"} /\ ~lastOp'.threw) =>
          \A k \in DOMAIN components' :
              (~\E j \in DOMAIN components : components[j].id = components'[k].id) =>
                  /\ components'[k].id \in DOMAIN lastOp'.named
                  /\ components'[k].name = lastOp'.named[components'[k].id].name
                  /\ components'[k].type = lastOp'.named[components'[k].id].type]_vars

\* insertDependencies created the row of an id whose earlier mentions carry
\* another name than its last one, and the row has the last name
C39_Witness ==
    /\ lastOp.op = "insertDependencies"
    /\ \E k \in DOMAIN components :
          /\ components[k].id \in lastOp.created
          /\ components[k].name = lastOp.named[components[k].id].name
          /\ lastOp.named[components[k].id].earlier \ {components[k].name} # {}

\* repair created the row of a dangling id whose earlier mentions carry
\* another name than its last one
C39_RepairCase ==
    /\ lastOp.op = "repair"
    /\ \E k \in DOMAIN components :
          /\ components[k].id \in lastOp.created
          /\ components[k].id \in lastOp.missing
          /\ components[k].name = lastOp.named[components[k].id].name
          /\ lastOp.named[components[k].id].earlier \ {components[k].name} # {}

\* C40: after every recomputation of the graph every rendered edge has its
\* source and its target among the rendered nodes and joins two different
\* ids, and no id is rendered by two nodes
C40_RenderedGraphWellFormed ==
    /\ \A k \in DOMAIN flowEdges :
          /\ \E n \in DOMAIN flowNodes : flowNodes[n].id = flowEdges[k].source
          /\ \E n \in DOMAIN flowNodes : flowNodes[n].id = flowEdges[k].target
          /\ flowEdges[k].source # flowEdges[k].target
    /\ \A m, n \in DOMAIN flowNodes : flowNodes[m].id = flowNodes[n].id => m = n

\* with a filter set and the highly-connected toggle on, an edge is
\* rendered while rawData holds a record from a rendered id to itself and
\* names that id in two records
C40_Witness ==
    /\ flowEdges # <<>>
    /\ isFilteringActive(View)
    /\ showHighlyConnected
    /\ \E k \in DOMAIN rawData :
          /\ rawData[k].metadataComponentId = rawData[k].refMetadataComponentId
          /\ \E n \in DOMAIN flowNodes : flowNodes[n].id = rawData[k].metadataComponentId
          /\ \E j \in DOMAIN rawData : j # k /\ rawData[j].refMetadataComponentId
                                                   = rawData[k].metadataComponentId

====
